---- MODULE Spec2Model ----
(***************************************************************************)
(* Model of the LLM Council deliberation engine:                           *)
(*   llm_council/council.py                  Council.deliberate            *)
(*   llm_council/peer_review_orchestrator.py PeerReviewOrchestrator        *)
(*   llm_council/roles/registry.py           RoleRegistry                  *)
(*   llm_council/anonymization/core.py       anonymize_responses           *)
(*   llm_council/analysis/bradley_terry.py   PairwiseResult                *)
(*                                                                         *)
(* One deliberate() call is a coroutine that suspends only at provider     *)
(* calls.  Every action below is the code that runs between two            *)
(* suspension points.                                                      *)
(*                                                                         *)
(* Conventions.  Python None is the string "None".  A role name is a       *)
(* number.  A label and a model id are strings.  A verdict string such as  *)
(* "A>>B" is the tuple <<"A", ">>", "B">>.  A judge text is a sequence of  *)
(* tokens; a token is a bracketed verdict [[l op r]] or a plain word.      *)
(* Borda scores are counted in units of 0.5 (see BordaWeights).            *)
(***************************************************************************)
EXTENDS Integers, Sequences, FiniteSets, TLC

(***************************************************************************)
(* Bounds and input alphabets                                              *)
(***************************************************************************)
MaxRoles == 2

RoleNames == 1..MaxRoles

Models == {"m1", "m2"}

None == "None"

OutputModes == {"synthesis", "perspectives", "both"}

AggregationMethods == {"borda", "bradley_terry", "elo"}

VARIABLES
    registry,   \* RoleRegistry._roles in insertion order: Seq of Role
    provider,   \* Council.provider: "None" or "provider"
    config,     \* Council.config: CouncilConfig
    task,       \* the argument of deliberate
    pc,         \* position of the deliberate coroutine
    tasks,      \* the _execute_role coroutines handed to asyncio.gather
    output,     \* the CouncilOutput under construction
    review,     \* the locals of conduct_peer_review
    calls,      \* the provider.generate calls issued so far
    raised,     \* the exception deliberate raised, or None
    chairman,   \* _synthesize's local `result`: the answer of the chairman call
    events,     \* the messages sent on the websocket so far
    invoked     \* a library function called directly: its arguments and outcome

vars == <<registry, provider, config, task, pc, tasks, output, review, calls, raised,
          chairman, events, invoked>>

(***************************************************************************)
(* Small helpers on sequences and dicts                                    *)
(***************************************************************************)
Range(s) == {s[i] : i \in 1..Len(s)}

RECURSIVE SumOver(_, _)
SumOver(f, S) ==
    IF S = {} THEN 0
    ELSE LET x == CHOOSE y \in S : TRUE IN f[x] + SumOver(f, S \ {x})

\* d[k] = v on a Python dict held as a function
DictSet(d, k, v) == [x \in (DOMAIN d) \cup {k} |-> IF x = k THEN v ELSE d[x]]

EmptyDict == [x \in {} |-> 0]

\* {key(e): val(e) for e in s}: the last occurrence of a key wins
LastIndex(keys, k) == CHOOSE i \in 1..Len(keys) :
    /\ keys[i] = k
    /\ \A j \in (i+1)..Len(keys) : keys[j] # k

DictOf(keys, vals) == [k \in Range(keys) |-> vals[LastIndex(keys, k)]]

\* list(d.keys()) of such a dict: keys in order of first insertion
RECURSIVE KeyOrder(_)
KeyOrder(keys) ==
    IF keys = <<>> THEN <<>>
    ELSE LET front == SubSeq(keys, 1, Len(keys) - 1)
             last == keys[Len(keys)]
         IN IF last \in Range(front) THEN KeyOrder(front)
            ELSE Append(KeyOrder(front), last)

\* itertools.combinations(range(1, n+1), 2) as a sequence of index pairs
PairRank(i, j, n) == (i - 1) * n - ((i * (i - 1)) \div 2) + (j - i)

Combinations2(n) ==
    LET S == {p \in (1..n) \X (1..n) : p[1] < p[2]}
    IN [k \in 1..Cardinality(S) |-> CHOOSE p \in S : PairRank(p[1], p[2], n) = k]

Choose2(n) == (n * (n - 1)) \div 2

(***************************************************************************)
(* Data types                                                              *)
(***************************************************************************)
\* roles/role.py: the Role dataclass (the second definition is the one in force)
Role(name, model, depends_on) ==
    [name |-> name, model |-> model, depends_on |-> depends_on]

\* council.py: CouncilResult; tokens_used and latency_ms carry no control flow
CouncilResult(role_name, content, model, error) ==
    [role_name |-> role_name, content |-> content, model |-> model, error |-> error]

\* CouncilResult.success
Success(r) == r.error = None

\* council.py: CouncilOutput(task=task, output_mode=config.output_mode)
CouncilOutput(t, mode) ==
    [task |-> t, results |-> <<>>, output_mode |-> mode, synthesis |-> None,
     metadata |-> EmptyDict, aggregate_rankings |-> EmptyDict,
     aggregation_scores |-> EmptyDict, peer_review_texts |-> EmptyDict]

\* RoleRegistry.__iter__: iter(self._roles.values()), insertion order
RegistryIter(reg) == reg

\* RoleRegistry.list_names
ListNames(reg) == [i \in 1..Len(reg) |-> reg[i].name]

(***************************************************************************)
(* The provider: what one generate() call can answer                       *)
(***************************************************************************)
\* GenerationResult with content, GenerationResult with error set, or an exception
Returned(content) == [kind |-> "return", content |-> content, error |-> None]

\* empty is the empty content: "" for an answer, <<>> for a judge text
ReturnedError(empty, msg) == [kind |-> "return", content |-> empty, error |-> msg]

Raised(empty, msg) == [kind |-> "raise", content |-> empty, error |-> msg]

RoleReplies == {Returned("answer"), ReturnedError("", "API error"), Raised("", "boom")}

\* tokens of a judge text
Word == [l |-> "", op |-> "word", r |-> ""]

Tok(l, op, r) == [l |-> l, op |-> op, r |-> r]

\* the texts a judge may answer when shown the labels a and b
JudgeTexts(a, b) ==
    {<<>>, <<Word>>, <<Word, Tok(a, ">>", b)>>, <<Tok(a, "=", b)>>, <<Tok(b, ">", a)>>}

JudgeReplies(a, b) ==
    {Returned(t) : t \in JudgeTexts(a, b)}
        \cup {ReturnedError(<<>>, "API error"), Raised(<<>>, "boom")}

SynthReplies == {Returned("final"), ReturnedError("", "API error"), Raised("", "boom")}

(***************************************************************************)
(* anonymization/core.py                                                   *)
(***************************************************************************)
\* id_format.format(prefix, i + 1) with the defaults "{}{}" and "A"
AnonId(i) == <<"A1", "A2", "A3", "A4", "A5", "A6">>[i]

\* anonymize_responses(results): ids are zipped to the results in their order,
\* then random.shuffle reorders the pairs; perm is the order the shuffle leaves
AnonymizeResponses(results, perm) ==
    [k \in 1..Len(results) |->
        [anonymous_id |-> AnonId(perm[k]),
         role_name |-> results[perm[k]].role_name,
         content |-> results[perm[k]].content,
         model |-> results[perm[k]].model,
         error |-> results[perm[k]].error]]

(***************************************************************************)
(* peer_review_orchestrator.py: verdict parsing                            *)
(***************************************************************************)
\* re.search of one bracketed pattern in the text
Search(text, l, op, r) == \E i \in 1..Len(text) : text[i] = Tok(l, op, r)

Verdicts == << <<"A", ">>", "B">>, <<"A", ">", "B">>, <<"A", "=", "B">>,
               <<"B", ">", "A">>, <<"B", ">>", "A">> >>

\* Patterns with the two labels taken in the other orientation
PatternsReversed(id_a, id_b) ==
    << <<id_b, ">>", id_a>>, <<id_b, ">", id_a>>, <<id_b, "=", id_a>>,
       <<id_a, ">", id_b>>, <<id_a, ">>", id_b>> >>

\* the five labelled patterns, in the order of the list `patterns`
Patterns(id_a, id_b) ==
    << <<id_a, ">>", id_b>>, <<id_a, ">", id_b>>, <<id_a, "=", id_b>>,
       <<id_b, ">", id_a>>, <<id_b, ">>", id_a>> >>

\* the None that _parse_pairwise_verdict returns
NoVerdict == <<>>

\* the verdict of the pattern whose token comes first in the text
FirstInText(text, pats) ==
    LET at == {i \in 1..Len(text) :
                \E k \in 1..Len(pats) : text[i] = Tok(pats[k][1], pats[k][2], pats[k][3])}
        i0 == CHOOSE i \in at : \A j \in at : i <= j
    IN IF at = {} THEN NoVerdict
       ELSE Verdicts[CHOOSE k \in 1..Len(pats) :
                        text[i0] = Tok(pats[k][1], pats[k][2], pats[k][3])]

\* for pattern, verdict in zip(...): the verdict of the first pattern found
FirstMatch(text, pats) ==
    LET hits == {k \in 1..Len(pats) : Search(text, pats[k][1], pats[k][2], pats[k][3])}
    IN IF hits = {} THEN NoVerdict
       ELSE Verdicts[CHOOSE k \in hits : \A m \in hits : k <= m]

\* _parse_pairwise_verdict(text, id_a, id_b)
ParsePairwiseVerdict(text, id_a, id_b) ==
    LET labelled == FirstMatch(text, Patterns(id_a, id_b))
    IN IF labelled # NoVerdict THEN labelled
       ELSE FirstMatch(text, Patterns("A", "B"))

\* str.replace on a verdict, token by token
Replace(v, old, new) == [i \in 1..Len(v) |-> IF v[i] = old THEN new ELSE v[i]]

\* _get_ranking_from_role with a provider: the text the judge call yields
GetRankingFromRole(reply) ==
    IF reply.kind = "raise" THEN <<>> ELSE reply.content

(***************************************************************************)
(* peer_review_orchestrator.py and analysis: aggregation                   *)
(***************************************************************************)
\* the if/elif chain of compute_scores_from_pairwise; skip is the `continue`
VerdictToResult(c) ==
    LET v == c[4]
        mk(w, m) == [skip |-> FALSE, item_a |-> c[2], item_b |-> c[3],
                     winner |-> w, margin |-> m]
    IN CASE v = <<"A", ">>", "B">> -> mk("a", "major")
         [] v = <<"A", ">", "B">> -> mk("a", "minor")
         [] v = <<"A", "=", "B">> -> mk("tie", "tie")
         [] v = <<"B", ">", "A">> -> mk("b", "minor")
         [] v = <<"B", ">>", "A">> -> mk("b", "major")
         [] OTHER -> [skip |-> TRUE, item_a |-> c[2], item_b |-> c[3],
                      winner |-> None, margin |-> "minor"]

\* PairwiseResult.__post_init__: TRUE when the constructor does not raise
PostInitOk(winner, margin) ==
    /\ winner \in {"a", "b", None}
    /\ margin \in {"major", "minor"}

\* weights of _borda_from_pairwise, 3.0 / 1.0 / 0.5, in units of 0.5
BordaWeights == [major |-> 6, minor |-> 2, tie |-> 1]

Items(rs) == {rs[i].item_a : i \in 1..Len(rs)} \cup {rs[i].item_b : i \in 1..Len(rs)}

\* what one record adds to the score of x
BordaGain(res, x) ==
    LET w == IF res.margin \in DOMAIN BordaWeights THEN BordaWeights[res.margin] ELSE 2
    IN IF res.winner = "a" /\ res.item_a = x THEN w
       ELSE IF res.winner = "b" /\ res.item_b = x THEN w
       ELSE IF res.winner = "tie" /\ x \in {res.item_a, res.item_b}
            THEN (IF res.item_a = res.item_b THEN 2 ELSE 1) * BordaWeights["tie"]
       ELSE 0

\* _borda_from_pairwise
BordaFromPairwise(rs) ==
    [x \in Items(rs) |->
        SumOver([i \in 1..Len(rs) |-> BordaGain(rs[i], x)], 1..Len(rs))]

\* BradleyTerryAnalyzer.fit: the keys are _build_item_map's items; the fitted
\* strengths themselves are floats and are not computed here
BradleyTerryFit(rs) == [x \in Items(rs) |-> "pi"]

\* bootstrap_elo: {} below two records, else one entry per item of the battles
BootstrapElo(rs) ==
    IF Len(rs) < 2 THEN EmptyDict ELSE [x \in Items(rs) |-> "elo"]

\* one entry of the result dict; a confidence_intervals of None is the empty map
Method(scores, ci) == [scores |-> scores, confidence_intervals |-> ci]

\* compute_scores_from_pairwise: exc is the exception that escapes it, if any
ComputeScoresFromPairwise(pairwise_comparisons) ==
    LET conv == [i \in 1..Len(pairwise_comparisons) |->
                    VerdictToResult(pairwise_comparisons[i])]
        kept == SelectSeq(conv, LAMBDA r : ~r.skip)
        bad == \E i \in 1..Len(kept) : ~PostInitOk(kept[i].winner, kept[i].margin)
        elo == IF kept # <<>> /\ Len(kept) >= 2 THEN BootstrapElo(kept) ELSE EmptyDict
    IN IF bad
       THEN [exc |-> "ValueError", value |-> EmptyDict]
       ELSE [exc |-> None,
             value |->
                [borda |-> Method(BordaFromPairwise(kept), EmptyDict),
                 bradley_terry |->
                    Method(IF kept # <<>> THEN BradleyTerryFit(kept) ELSE EmptyDict,
                           EmptyDict),
                 elo |-> Method(elo, [x \in DOMAIN elo |-> "ci"])]]

(***************************************************************************)
(* council.py: the pieces of Council.deliberate                            *)
(***************************************************************************)
NoResult == CouncilResult(0, "", None, None)

\* no exception / CouncilError(f"Deliberation failed: {e}") from e
NoException == [type |-> None, cause |-> None]

CouncilError(e) == [type |-> "CouncilError", cause |-> e]

\* no answer of the provider yet
NoReply == [kind |-> None, content |-> "", error |-> None]

\* no library function has been called directly
NoInvocation == [fn |-> None, args |-> <<>>, exc |-> None, value |-> <<>>]

\* one _execute_role coroutine: its position, the provider's answer (the local
\* `result`), the exception that escaped it, the CouncilResult it returned, and
\* its rank among the coroutines in order of completion (0: still running)
NewTask == [status |-> "new", reply |-> NoReply, exc |-> None, result |-> NoResult,
            order |-> 0]

Finished(ts) == {i \in 1..Len(ts) : ts[i].status = "done"}

\* ExecuteRole without its `except Exception`: the provider's exception escapes
ExecuteRoleUncaught(role, reply) ==
    IF reply.kind = "raise"
    THEN [exc |-> reply.error, value |-> NoResult]
    ELSE [exc |-> None, value |-> CouncilResult(role.name, reply.content, role.model, None)]

\* _execute_role with a provider, once generate() has answered with reply:
\* exc is the exception that escapes the coroutine, value the CouncilResult
ExecuteRole(role, reply) ==
    IF reply.kind = "raise"
    THEN [exc |-> None, value |-> CouncilResult(role.name, "", role.model, reply.error)]
    ELSE [exc |-> None, value |-> CouncilResult(role.name, reply.content, role.model, None)]

\* _execute_role without a provider (placeholder mode)
PlaceholderRole(role, t) ==
    CouncilResult(role.name, "[Placeholder]", role.model, None)

\* GatherReady as asyncio.wait(..., return_when=FIRST_COMPLETED) would have it
GatherReadyFirstCompleted(ts) == ts = <<>> \/ \E i \in 1..Len(ts) : ts[i].status = "done"

\* await asyncio.gather(*tasks) resumes when every task is done
GatherReady(ts) == \A i \in 1..Len(ts) : ts[i].status = "done"

\* GatherResults as asyncio.as_completed would have it: in order of completion
GatherResultsAsCompleted(ts) ==
    [k \in 1..Len(ts) |-> ts[CHOOSE i \in 1..Len(ts) : ts[i].order = k].result]

\* the list gather returns: one result per awaitable, in the order given
GatherResults(ts) == [i \in 1..Len(ts) |-> ts[i].result]

\* successful_results = [r for r in output.results if r.success]
SuccessfulResults(results) == SelectSeq(results, Success)

\* ReviewEnabled without the test of config.enable_peer_review
ReviewEnabledIgnoringFlag(cfg, successful) == Len(successful) > 1

\* if self.config.enable_peer_review and len(successful_results) > 1
ReviewEnabled(cfg, successful) == cfg.enable_peer_review /\ Len(successful) > 1

\* if self.config.output_mode in ("synthesis", "both")
SynthesisEnabled(cfg) == cfg.output_mode \in {"synthesis", "both"}

\* _synthesize once the chairman call has answered with reply
\* f"Synthesis failed: {e}"
SynthesisFailed(e) ==
    IF e = "" THEN "Synthesis failed: " ELSE [boom |-> "Synthesis failed: boom"][e]

Synthesize(reply) ==
    IF reply.kind = "raise" THEN SynthesisFailed(reply.error) ELSE reply.content

PlaceholderSynthesis == "[Placeholder] Synthesis of results..."

\* model = self.config.chairman_model or "gpt-4"
ChairmanModel(cfg) == IF cfg.chairman_model = None THEN "gpt-4" ELSE cfg.chairman_model

Call(kind, who, model, a, b) == [kind |-> kind, who |-> who, model |-> model, a |-> a, b |-> b]

\* the outcome of a stretch of deliberate: where it stops, the output so far,
\* the exception it raised and the provider call it issued
Stop(p, out, exc, issued) == [pc |-> p, output |-> out, raised |-> exc, issued |-> issued]

\* step 3 of deliberate
SynthesisStep(out) ==
    IF SynthesisEnabled(config)
    THEN IF provider = None
         THEN Stop("done", [out EXCEPT !.synthesis = PlaceholderSynthesis], NoException, <<>>)
         ELSE Stop("synth", out, NoException,
                   <<Call("synth", 0, ChairmanModel(config), None, None)>>)
    ELSE Stop("done", out, NoException, <<>>)

\* the method whose scores are copied, whatever the configuration says
PrimaryAlwaysBorda(cfg) == "borda"

\* primary = self.config.aggregation_method
PrimaryMethod(cfg) == cfg.aggregation_method

\* deliberate after conduct_peer_review has returned (comparisons, texts)
AfterReview(out, comparisons, texts) ==
    LET out1 == [out EXCEPT !.peer_review_texts = texts]
        cs == ComputeScoresFromPairwise(comparisons)
        primary == PrimaryMethod(config)
        out2 == [out1 EXCEPT !.aggregation_scores = cs.value,
                             !.aggregate_rankings =
                                IF primary \in DOMAIN cs.value
                                THEN cs.value[primary].scores ELSE @]
    IN IF comparisons = <<>> THEN SynthesisStep(out1)
       ELSE IF cs.exc # None
            THEN Stop("failed", out1, CouncilError(cs.exc), <<>>)
            ELSE SynthesisStep(out2)

(***************************************************************************)
(* peer_review_orchestrator.py: conduct_peer_review                        *)
(***************************************************************************)
NoReview ==
    [models |-> <<>>, pairs |-> <<>>,
     anonymous_map |-> EmptyDict, response_map |-> EmptyDict,
     judge |-> 0, pair |-> 0, finished |-> FALSE, judgment_text |-> <<>>,
     pairwise_comparisons |-> <<>>, peer_review_texts |-> EmptyDict]

\* itertools.combinations(models, 2)
ModelPairs(models) ==
    LET c == Combinations2(Len(models))
    IN [k \in 1..Len(c) |-> <<models[c[k][1]], models[c[k][2]]>>]

\* the maps built before the loops; perm is the order random.shuffle leaves
BuildMaps(results, perm) ==
    LET model_keys == [i \in 1..Len(results) |-> results[i].model]
        contents == [i \in 1..Len(results) |-> results[i].content]
        an == AnonymizeResponses(results, perm)
        an_model == [k \in 1..Len(an) |-> an[k].model]
        an_id == [k \in 1..Len(an) |-> an[k].anonymous_id]
        an_content == [k \in 1..Len(an) |-> an[k].content]
    IN [NoReview EXCEPT
            !.models = KeyOrder(model_keys),
            !.pairs = ModelPairs(KeyOrder(model_keys)),
            !.anonymous_map = IF config.anonymize THEN DictOf(an_model, an_id)
                              ELSE DictOf(model_keys, model_keys),
            !.response_map = IF config.anonymize THEN DictOf(an_id, an_content)
                             ELSE DictOf(model_keys, contents)]

\* the body of `for judge_role in self.council.registry` up to the first
\* provider call: the judge's text list is (re)set to []; without a provider,
\* and without pairs, every iteration runs through without a call
RECURSIVE EnterJudge(_, _)
EnterJudge(rv, j) ==
    IF j > Len(RegistryIter(registry))
    THEN [rv EXCEPT !.judge = j, !.pair = 0, !.finished = TRUE]
    ELSE LET rv1 == [rv EXCEPT !.peer_review_texts =
                                    DictSet(@, RegistryIter(registry)[j].model, <<>>)]
         IN IF rv.pairs = <<>> \/ provider = None
            THEN EnterJudge(rv1, j + 1)
            ELSE [rv1 EXCEPT !.judge = j, !.pair = 1]

\* the prompt of the comparison the loops stand at
PendingCall(rv) ==
    LET jr == RegistryIter(registry)[rv.judge]
        mp == rv.pairs[rv.pair]
    IN Call("judge", jr.name, jr.model, rv.anonymous_map[mp[1]], rv.anonymous_map[mp[2]])

\* one loop body after _get_ranking_from_role returned judgment_text
RecordJudgment(rv, judgment_text) ==
    LET judge_model == RegistryIter(registry)[rv.judge].model
        mp == rv.pairs[rv.pair]
        anon_a == rv.anonymous_map[mp[1]]
        anon_b == rv.anonymous_map[mp[2]]
        verdict == ParsePairwiseVerdict(judgment_text, anon_a, anon_b)
        verdict_deAnon ==
            IF config.anonymize THEN Replace(Replace(verdict, anon_a, "A"), anon_b, "B")
            ELSE Replace(Replace(verdict, mp[1], "A"), mp[2], "B")
        got == [rv EXCEPT !.judgment_text = judgment_text]
        stored == [got EXCEPT !.peer_review_texts[judge_model] =
                        Append(@, [a |-> anon_a, b |-> anon_b, text |-> judgment_text])]
    IN IF judgment_text = <<>> THEN got
       ELSE IF verdict = NoVerdict THEN stored
       ELSE [stored EXCEPT !.pairwise_comparisons =
                Append(@, <<judge_model, mp[1], mp[2], verdict_deAnon>>)]

\* the loops move on to the next comparison, or end
NextComparison(rv) ==
    IF rv.pair < Len(rv.pairs)
    THEN [rv EXCEPT !.pair = @ + 1]
    ELSE EnterJudge(rv, rv.judge + 1)

\* deliberate from the review loops on: the next judge call, or the rest
ReviewStep(out, rv) ==
    IF rv.finished
    THEN AfterReview(out, rv.pairwise_comparisons, rv.peer_review_texts)
    ELSE Stop("review", out, NoException, <<PendingCall(rv)>>)

(***************************************************************************)
(* Initial states: a council as constructed, about to deliberate on task   *)
(***************************************************************************)
\* registries that add() can build: role names are unique; the n roles were
\* added by ascending or by descending name
RegistriesWith(deps) ==
    UNION {{reg \in [1..n -> [name : 1..n, model : Models, depends_on : deps]] :
                \/ \A i \in 1..n : reg[i].name = i
                \/ \A i \in 1..n : reg[i].name = n + 1 - i} :
           n \in 0..MaxRoles}

\* config.py: the configurations CouncilConfig.__post_init__ accepts
Configs ==
    [output_mode : OutputModes, aggregation_method : {"borda"},
     enable_peer_review : BOOLEAN, anonymize : BOOLEAN, chairman_model : {None}]

InitWith(regs, tsks) ==
    /\ registry \in regs
    /\ provider \in {None, "provider"}
    /\ config \in Configs
    /\ task \in tsks
    /\ pc = "start"
    /\ tasks = <<>>
    /\ output = CouncilOutput("", "perspectives")
    /\ review = NoReview
    /\ calls = <<>>
    /\ raised = NoException
    /\ chairman = NoReply
    /\ events = <<>>
    /\ invoked = NoInvocation

Init == InitWith(RegistriesWith({<<>>}), {"task"})

\* the same with depends_on lists and with an empty task
DependsOnLists == {<<>>} \cup {<<d>> : d \in RoleNames}

InitDepends == InitWith(RegistriesWith(DependsOnLists), {"", "task"})

(***************************************************************************)
(* Actions: the stretches of deliberate between two suspension points      *)
(***************************************************************************)
\* deliberate is called: the output is created and the role coroutines are
\* handed to gather
Deliberate ==
    /\ pc = "start"
    /\ pc' = "roles"
    /\ output' = CouncilOutput(task, config.output_mode)
    /\ tasks' = [i \in 1..Len(RegistryIter(registry)) |-> NewTask]
    /\ UNCHANGED <<chairman, events, invoked, registry, provider, config, task, review, calls, raised>>

\* the event loop starts the i-th role coroutine (in the order gather got them):
\* it runs to its provider call, or to its end in placeholder mode
RunRole(i) ==
    /\ pc = "roles"
    /\ i \in 1..Len(tasks)
    /\ tasks[i].status = "new"
    /\ \A j \in 1..(i - 1) : tasks[j].status # "new"
    /\ LET role == RegistryIter(registry)[i]
       IN IF provider = None
          THEN /\ tasks' = [tasks EXCEPT ![i] =
                              [status |-> "done", reply |-> NoReply, exc |-> None,
                               result |-> PlaceholderRole(role, task),
                               order |-> Cardinality(Finished(tasks)) + 1]]
               /\ calls' = calls
          ELSE /\ tasks' = [tasks EXCEPT ![i].status = "called"]
               /\ calls' = Append(calls, Call("role", role.name, role.model, None, None))
    /\ UNCHANGED <<chairman, events, invoked, registry, provider, config, task, pc, output, review, raised>>

\* the provider call of the i-th role answers; an exception that escapes the
\* coroutine escapes gather and fails the deliberation
RoleReturns(i, reply) ==
    /\ pc = "roles"
    /\ i \in 1..Len(tasks)
    /\ tasks[i].status = "called"
    /\ LET r == ExecuteRole(RegistryIter(registry)[i], reply)
       IN /\ tasks' = [tasks EXCEPT ![i] =
                          [status |-> "done", reply |-> reply, exc |-> r.exc,
                           result |-> r.value,
                           order |-> Cardinality(Finished(tasks)) + 1]]
          /\ pc' = IF r.exc = None THEN pc ELSE "failed"
          /\ raised' = IF r.exc = None THEN raised ELSE CouncilError(r.exc)
    /\ UNCHANGED <<chairman, events, invoked, registry, provider, config, task, output, review, calls>>

\* gather returns and its coroutines are gone: the results are stored, and
\* deliberate runs on to its next provider call or to its end
GatherComplete(perm) ==
    /\ pc = "roles"
    /\ GatherReady(tasks)
    /\ LET out == [output EXCEPT !.results = @ \o GatherResults(tasks)]
           successful == SuccessfulResults(out.results)
           rv == IF ReviewEnabled(config, successful)
                 THEN EnterJudge(BuildMaps(successful, perm), 1)
                 ELSE NoReview
           stop == IF ReviewEnabled(config, successful)
                   THEN ReviewStep(out, rv)
                   ELSE SynthesisStep(out)
       IN /\ perm \in IF ReviewEnabled(config, successful) /\ config.anonymize
                       THEN Permutations(1..Len(successful))
                       ELSE {[k \in 1..Len(successful) |-> k]}
          /\ review' = rv
          /\ pc' = stop.pc
          /\ output' = stop.output
          /\ raised' = stop.raised
          /\ calls' = calls \o stop.issued
    /\ tasks' = <<>>
    /\ UNCHANGED <<chairman, events, invoked, registry, provider, config, task>>

\* conduct_peer_review and deliberate from the answer of the pending judge call
\* to the next provider call
JudgeStep(reply, log) ==
    LET rv == NextComparison(RecordJudgment(review, GetRankingFromRole(reply)))
        stop == ReviewStep(output, rv)
    IN /\ review' = rv
       /\ pc' = stop.pc
       /\ output' = stop.output
       /\ raised' = stop.raised
       /\ calls' = log \o stop.issued

\* the pending judge call answers
JudgeReturns ==
    /\ pc = "review"
    /\ \E reply \in JudgeReplies(PendingCall(review).a, PendingCall(review).b) :
          JudgeStep(reply, calls)
    /\ UNCHANGED <<chairman, events, invoked, registry, provider, config, task, tasks>>

\* the chairman call answers and deliberate returns the output
SynthReturns(reply) ==
    /\ pc = "synth"
    /\ chairman' = reply
    /\ output' = [output EXCEPT !.synthesis = Synthesize(reply)]
    /\ pc' = "done"
    /\ UNCHANGED <<events, invoked, registry, provider, config, task, tasks, review, calls, raised>>

Next ==
    \/ Deliberate
    \/ \E i \in 1..MaxRoles : RunRole(i)
    \/ \E i \in 1..MaxRoles, reply \in RoleReplies : RoleReturns(i, reply)
    \/ \E perm \in UNION {Permutations(1..n) : n \in 0..MaxRoles} : GatherComplete(perm)
    \/ JudgeReturns
    \/ \E reply \in SynthReplies : SynthReturns(reply)

Spec == Init /\ [][Next]_vars

SpecDepends == InitDepends /\ [][Next]_vars

(***************************************************************************)
(* Properties of Council.deliberate                                        *)
(***************************************************************************)
ResultNames == [i \in 1..Len(output.results) |-> output.results[i].role_name]

CallsOf(kind) == {k \in 1..Len(calls) : calls[k].kind = kind}

Successful == SuccessfulResults(output.results)

\* the role phase is over: gather has returned
RolesOver == pc \notin {"start", "roles"}

\* C1: once the role phase is over and deliberate has not raised, the output
\* holds one result per role of the registry, and the role names of the results
\* are the registry's names in insertion order, whatever the order in which the
\* role coroutines completed and whichever of them failed.
C1_ResultsInRegistryOrder ==
    pc \in {"review", "synth", "done"} =>
        /\ Len(output.results) = Len(registry)
        /\ ResultNames = ListNames(registry)

\* C1 witness: deliberate returned for a registry whose insertion order is not
\* the order of the names, with a failed first role and a successful second one.
C1_Witness ==
    /\ pc = "done"
    /\ ListNames(registry) = <<2, 1>>
    /\ ResultNames = <<2, 1>>
    /\ ~Success(output.results[1])
    /\ Success(output.results[2])

\* C2: a role whose provider call returned a GenerationResult with error set
\* gets a CouncilResult with error set, hence success = false.
C2_ReturnedErrorIsRecorded ==
    \A i \in 1..Len(tasks) :
        (tasks[i].status = "done" /\ tasks[i].reply.kind = "return"
            /\ tasks[i].reply.error # None)
        => (tasks[i].result.error # None /\ ~Success(tasks[i].result))

\* C3: no judge verdict and no aggregator failure makes deliberate raise.
C3_JudgingNeverAborts == pc # "failed" /\ raised = NoException

Names(reg) == {reg[i].name : i \in 1..Len(reg)}

\* the names listed in depends_on by the roles whose names are in S
DependsOnOf(reg, S) ==
    UNION {Range(reg[i].depends_on) : i \in {j \in 1..Len(reg) : reg[j].name \in S}}

RECURSIVE Reachable(_, _, _)
Reachable(reg, S, k) ==
    IF k = 0 THEN S ELSE Reachable(reg, S \cup DependsOnOf(reg, S), k - 1)

Unresolvable(reg) == ~(DependsOnOf(reg, Names(reg)) \subseteq Names(reg))

Cyclic(reg) ==
    \E n \in Names(reg) : n \in Reachable(reg, DependsOnOf(reg, {n}), Len(reg))

InvalidRequest ==
    task = "" \/ Len(registry) = 0 \/ Unresolvable(registry) \/ Cyclic(registry)

\* C5: for an empty task, an empty registry, or a depends_on that names no
\* registered role or closes a cycle, deliberate issues no provider call and
\* ends only by raising ConfigurationError.
C5_InvalidRequestRejected ==
    InvalidRequest =>
        /\ calls = <<>>
        /\ pc # "done"
        /\ pc = "failed" => raised.type = "ConfigurationError"

\* C6: when the depends_on lists form a valid graph, the provider call of a role
\* is in flight only if the coroutine of every role it depends on is done.
C6_DependenciesCompleteBeforeDispatch ==
    ~InvalidRequest =>
        \A i \in 1..Len(tasks) :
            tasks[i].status = "called" =>
                \A d \in Range(registry[i].depends_on) :
                    \E j \in 1..Len(tasks) :
                        registry[j].name = d /\ tasks[j].status = "done"

PhaseRank(p) ==
    CASE p = "start" -> 0 [] p = "roles" -> 1 [] p = "review" -> 2
      [] p = "synth" -> 3 [] p = "done" -> 4 [] p = "failed" -> 4

CallRank(kind) == CASE kind = "role" -> 1 [] kind = "judge" -> 2 [] kind = "synth" -> 3

\* peer review was skipped, or it ran to its end and its scores were computed
ReviewOver ==
    \/ review = NoReview
    \/ /\ review.finished
       /\ review.pairwise_comparisons # <<>> => output.aggregation_scores # EmptyDict

\* the phases in order: the log of provider calls has the role calls first, then
\* the judge calls, then at most one synthesis call
PhasesInOrder ==
    /\ \A k, m \in 1..Len(calls) :
          k < m => CallRank(calls[k].kind) <= CallRank(calls[m].kind)
    /\ Cardinality(CallsOf("synth")) <= 1
    /\ pc \in {"start", "roles"} => CallsOf("judge") \cup CallsOf("synth") = {}
    /\ pc = "review" => CallsOf("synth") = {} /\ output.synthesis = None
    /\ (pc = "synth" \/ CallsOf("synth") # {} \/ output.synthesis # None) => ReviewOver
    /\ CallsOf("judge") # {} => Len(output.results) = Len(registry)

\* a phase is never re-entered, and the role phase is left only when every role
\* coroutine is done
PhaseStep ==
    /\ pc' # pc => PhaseRank(pc) < PhaseRank(pc')
    /\ (pc = "roles" /\ pc' # pc) => \A i \in 1..Len(tasks) : tasks[i].status = "done"

\* C7: deliberate runs role execution, then peer review with score computation,
\* then synthesis; no phase starts before the one before it is over (all role
\* coroutines done before the first judge call, review finished and scores
\* computed before the synthesis call) and no phase runs twice.
C7_PhaseOrder == []PhasesInOrder /\ [][PhaseStep]_vars

\* C7 witness: a deliberation that went through all three phases.
C7_Witness ==
    /\ pc = "done"
    /\ CallsOf("role") # {} /\ CallsOf("judge") # {} /\ CallsOf("synth") # {}
    /\ output.aggregation_scores # EmptyDict
    /\ output.synthesis = "final"

\* C8: a judge call is issued, and rankings or scores are stored, only when
\* enable_peer_review is set and at least two role results succeeded; otherwise
\* the review and aggregation phases are skipped, rankings and scores stay
\* empty, and deliberate does not raise but goes on until it returns.
C8_ReviewOnlyWhenEnabled ==
    /\ (CallsOf("judge") # {} \/ review # NoReview
            \/ output.aggregation_scores # EmptyDict
            \/ output.aggregate_rankings # EmptyDict)
        => (config.enable_peer_review /\ Len(Successful) >= 2)
    /\ (RolesOver /\ ~(config.enable_peer_review /\ Len(Successful) >= 2)) =>
          /\ pc # "failed"
          /\ pc # "review"
          /\ pc # "done" => ENABLED Next

\* C8 witness: peer review is enabled but only one of two roles succeeded;
\* deliberate returned without a judge call and with empty scores.
C8_Witness ==
    /\ pc = "done"
    /\ provider # None
    /\ config.enable_peer_review
    /\ Len(output.results) = 2
    /\ Len(Successful) = 1
    /\ CallsOf("judge") = {}
    /\ output.aggregation_scores = EmptyDict
    /\ output.aggregate_rankings = EmptyDict

\* C9: when every role failed, deliberate returns an output whose scores and
\* rankings are empty and whose synthesis is absent or empty, in every
\* output_mode.
C9_AllFailedNoSynthesis ==
    (pc = "done" /\ Len(output.results) > 0 /\ Len(Successful) = 0) =>
        /\ output.aggregation_scores = EmptyDict
        /\ output.aggregate_rankings = EmptyDict
        /\ output.synthesis \in {None, ""}

\* C10: with a provider, k judges and n successful responses, a finished peer
\* review has issued k * C(n,2) comparison prompts.
C10_ComparisonPromptCount ==
    (provider # None /\ review # NoReview /\ review.finished) =>
        Cardinality(CallsOf("judge")) = Len(registry) * Choose2(Len(Successful))

\* C11: when deliberate returns after a judging phase, metadata.dropped_judgments
\* is the number of comparison prompts issued minus the number of records
\* produced (all the prompts when no verdict could be parsed).
C11_DroppedJudgmentsCounted ==
    (pc = "done" /\ review # NoReview) =>
        /\ "dropped_judgments" \in DOMAIN output.metadata
        /\ output.metadata["dropped_judgments"] =
              Cardinality(CallsOf("judge")) - Len(review.pairwise_comparisons)

(***************************************************************************)
(* backend/api/websocket.py: StreamingCouncil and websocket_stream         *)
(***************************************************************************)
\* a message sent with send_json; role_name is 0 when the message has none
Event(type, role_name, info) == [type |-> type, role_name |-> role_name, info |-> info]

\* the positional parameters, after self, of _execute_role as the class defines it
ExecuteRoleParams(cls) ==
    IF cls = "StreamingCouncil" THEN <<"role", "task", "output">> ELSE <<"role", "task">>

\* the positional parameters, after self, of _synthesize as Council defines it
SynthesizeParams == <<"output">>

\* self._execute_role(role, task) in Council.deliberate: the call binds when it
\* passes as many arguments as the method of the instance's class requires
ExecuteRoleBinds(cls) == Len(ExecuteRoleParams(cls)) = Len(<<"role", "task">>)

\* super()._synthesize(output, include_weights, include_confidence)
SuperSynthesizeBinds ==
    Len(<<"output", "include_weights", "include_confidence">>) = Len(SynthesizeParams)

\* the number of simulated chunks of a role in placeholder mode
PlaceholderChunks == 4

\* what StreamingCouncil._execute_role sends for one role without a provider
StreamingRoleEvents(role) ==
    <<Event("role_start", role.name, "")>>
        \o [k \in 1..PlaceholderChunks |-> Event("role_chunk", role.name, "")]
        \o <<Event("role_complete", role.name, "")>>

RECURSIVE StreamingRolesEvents(_)
StreamingRolesEvents(reg) ==
    IF reg = <<>> THEN <<>>
    ELSE StreamingRoleEvents(Head(reg)) \o StreamingRolesEvents(Tail(reg))

\* StreamingCouncil(registry, provider=None, output_mode=output_mode): the other
\* fields are the defaults of CouncilConfig
StreamingConfig(mode) ==
    [output_mode |-> mode, aggregation_method |-> "borda", enable_peer_review |-> TRUE,
     anonymize |-> FALSE, chairman_model |-> None]

\* council.deliberate(request.task) of a StreamingCouncil up to the first message
\* the handler sends after it: the list comprehension of deliberate calls the
\* overriding _execute_role with two arguments.  Were the call to bind, every
\* role would send its events, and the handler would fail later, in the
\* overriding _synthesize or at output.get_successful(), which CouncilOutput
\* does not define.
StreamDeliberate ==
    IF ~ExecuteRoleBinds("StreamingCouncil")
    THEN [raised |-> CouncilError("TypeError"), sent |-> <<>>]
    ELSE [raised |-> IF SynthesisEnabled(config) /\ ~SuperSynthesizeBinds
                     THEN CouncilError("TypeError")
                     ELSE [type |-> "AttributeError", cause |-> None],
          sent |-> StreamingRolesEvents(RegistryIter(registry))]

\* the handler has accepted the connection and waits for the request
InitStream ==
    /\ registry \in RegistriesWith(DependsOnLists)
    /\ provider = None
    /\ config \in {StreamingConfig(mode) : mode \in OutputModes}
    /\ task \in {"", "task"}
    /\ pc = "accepted"
    /\ tasks = <<>>
    /\ output = CouncilOutput("", "perspectives")
    /\ review = NoReview
    /\ calls = <<>>
    /\ raised = NoException
    /\ chairman = NoReply
    /\ events = <<>>
    /\ invoked = NoInvocation

\* receive_json returns the request: validation, the registry, the council and
\* the deliberation run up to the send_json of the handler's answer
WsReceive ==
    /\ pc = "accepted"
    /\ IF task = ""
       THEN /\ events' = Append(events, Event("error", 0, "Task cannot be empty"))
            /\ UNCHANGED <<output, raised>>
       ELSE IF Len(registry) = 0
       THEN /\ events' = Append(events, Event("error", 0, "At least one role is required"))
            /\ UNCHANGED <<output, raised>>
       ELSE /\ output' = CouncilOutput(task, config.output_mode)
            /\ raised' = StreamDeliberate.raised
            /\ events' = (events \o StreamDeliberate.sent)
                             \o <<Event("error", 0, "Deliberation failed")>>
    /\ pc' = "error_sent"
    /\ UNCHANGED <<registry, provider, config, task, tasks, review, calls, chairman, invoked>>

\* send_json has returned: the handler closes the connection and ends
WsClose ==
    /\ pc = "error_sent"
    /\ pc' = "closed"
    /\ UNCHANGED <<registry, provider, config, task, tasks, output, review, calls, raised,
                   chairman, events, invoked>>

NextStream == WsReceive \/ WsClose

SpecStream == InitStream /\ [][NextStream]_vars /\ WF_vars(NextStream)

ValidRequest == task # "" /\ Len(registry) > 0

EventsOf(type, name) ==
    {k \in 1..Len(events) : events[k].type = type /\ events[k].role_name = name}

RoleEventsOf(name) ==
    EventsOf("role_start", name) \cup EventsOf("role_chunk", name)
        \cup EventsOf("role_complete", name)

StreamCompleted ==
    \E c \in EventsOf("complete", 0) :
        \A n \in Names(registry) :
            \E i \in EventsOf("role_start", n), j \in EventsOf("role_complete", n) :
                i < j /\ j < c

\* C12: a streaming deliberation over a valid request eventually has sent
\* role_start and then role_complete for every role, and then complete.
C12_StreamCompletes == (pc = "accepted" /\ ValidRequest) ~> StreamCompleted

\* C13: per role the events are role_start, then role_chunks, then
\* role_complete: at most one role_start and one role_complete, nothing of the
\* role before its role_start or after its role_complete, and once the stream
\* of a valid request has ended every role has had its role_start.
C13_RoleEventsOrdered ==
    \A n \in Names(registry) :
        /\ Cardinality(EventsOf("role_start", n)) <= 1
        /\ Cardinality(EventsOf("role_complete", n)) <= 1
        /\ \A k \in RoleEventsOf(n) :
              /\ \E i \in EventsOf("role_start", n) : i <= k
              /\ \A j \in EventsOf("role_complete", n) : k <= j
        /\ (pc = "closed" /\ ValidRequest) =>
              Cardinality(EventsOf("role_start", n)) = 1

(***************************************************************************)
(* Cancellation of the task that runs deliberate                           *)
(***************************************************************************)
\* IsException as it was before Python 3.8, when CancelledError derived from
\* Exception
IsExceptionBeforePython38(e) == TRUE

\* isinstance(e, Exception), the test of every `except Exception` clause:
\* asyncio.CancelledError derives from BaseException
IsException(e) == e # "CancelledError"

\* `except Exception as e: raise CouncilError(...) from e` of deliberate, with
\* the exception e arriving at it
DeliberateHandler(e) ==
    IF IsException(e)
    THEN Stop("failed", output, CouncilError(e), <<>>)
    ELSE Stop("cancelled", output, [type |-> e, cause |-> None], <<>>)

\* the pending provider calls: of the role coroutines, of a judge, of the chairman
ProviderCallPending ==
    \/ pc = "roles" /\ \E i \in 1..Len(tasks) : tasks[i].status = "called"
    \/ pc \in {"review", "synth"}

\* the log entry of a cancellation of the pending provider calls
Cancelled == Call("cancel", 0, None, None, None)

\* task.cancel() while a provider call is pending: CancelledError is thrown into
\* the coroutine at its await.  In the role phase gather cancels its children
\* and raises CancelledError in deliberate.  In the other phases the error
\* meets the `except Exception` of _get_ranking_from_role or of _synthesize
\* first, then that of deliberate.
Cancel ==
    /\ ProviderCallPending
    /\ IF pc = "review" /\ IsException("CancelledError")
       THEN /\ JudgeStep(Raised(<<>>, ""), Append(calls, Cancelled))
            /\ UNCHANGED <<tasks, chairman>>
       ELSE IF pc = "synth" /\ IsException("CancelledError")
       THEN /\ chairman' = Raised("", "")
            /\ output' = [output EXCEPT !.synthesis = Synthesize(Raised("", ""))]
            /\ pc' = "done"
            /\ calls' = Append(calls, Cancelled)
            /\ UNCHANGED <<tasks, review, raised>>
       ELSE LET stop == DeliberateHandler("CancelledError")
            IN /\ pc' = stop.pc
               /\ raised' = stop.raised
               /\ tasks' = <<>>
               /\ calls' = Append(calls, Cancelled)
               /\ UNCHANGED <<output, review, chairman>>
    /\ UNCHANGED <<registry, provider, config, task, events, invoked>>

InitCancel == Init /\ provider # None /\ ~config.anonymize

NextCancel == Next \/ Cancel

SpecCancel == InitCancel /\ [][NextCancel]_vars

\* C14: once a cancellation has arrived while a provider call was pending,
\* deliberate has ended with CancelledError: not with a CouncilError, not with a
\* returned output, and without a 'Synthesis failed' text; the role coroutines
\* are gone.
C14_CancellationPropagates ==
    CallsOf("cancel") # {} =>
        /\ pc = "cancelled"
        /\ raised = [type |-> "CancelledError", cause |-> None]
        /\ output.synthesis = None
        /\ tasks = <<>>

\* C14 witness: the deliberation was cancelled during a judge call, after all
\* role results had been gathered.
C14_Witness ==
    /\ pc = "cancelled"
    /\ CallsOf("cancel") # {}
    /\ CallsOf("judge") # {}
    /\ Len(output.results) = 2

\* the text 'Synthesis failed: <msg>'
SynthesisFailedText(msg) ==
    CASE msg = "boom" -> "Synthesis failed: boom"
      [] msg = "API error" -> "Synthesis failed: API error"
      [] OTHER -> "Synthesis failed: "

ChairmanFailed == chairman.kind = "raise" \/ (chairman.kind = "return" /\ chairman.error # None)

\* C15: when the chairman call raised or returned a result with error set,
\* deliberate returns and the output's synthesis is 'Synthesis failed: <msg>'.
C15_SynthesisFailureReported ==
    ChairmanFailed =>
        /\ pc = "done"
        /\ raised = NoException
        /\ output.synthesis = SynthesisFailedText(chairman.error)

\* C16: without a provider, a deliberation with peer review enabled and at
\* least two roles (of distinct models) still produces pairwise records and
\* non-empty scores.
C16_PlaceholderJudging ==
    (/\ pc = "done" /\ provider = None /\ config.enable_peer_review
     /\ Len(registry) >= 2
     /\ \A i, j \in 1..Len(registry) : i # j => registry[i].model # registry[j].model) =>
        /\ review.pairwise_comparisons # <<>>
        /\ output.aggregation_scores # EmptyDict

(***************************************************************************)
(* The judging phase over a wider choice of judge texts                    *)
(***************************************************************************)
\* the contents of the roles' answers, one per role coroutine
AnswerOf(i) == IF i = 1 THEN "answer" ELSE IF i = 2 THEN "other" ELSE "third"

\* the verdict tokens over the two labels of a prompt, in both orientations
LabelledTokens(a, b) ==
    {Tok(p[1], op, p[2]) : p \in {<<a, b>>, <<b, a>>}, op \in {">>", ">", "="}}

\* judge texts: empty, without a token, with one labelled token (alone or after
\* a word), with a label-free token before a labelled one, and with two tokens
\* that disagree
WideJudgeTexts(a, b) ==
    {<<>>, <<Word>>}
        \cup {<<t>> : t \in LabelledTokens(a, b)}
        \cup {<<Word, t>> : t \in {Tok(a, ">", b), Tok(b, ">>", a)}}
        \cup {<<Tok("A", ">", "B"), Tok(b, ">>", a)>>}
        \cup {<<Tok(a, ">>", b), Tok(b, ">", a)>>, <<Tok(b, ">>", a), Tok(a, ">", b)>>,
              <<Tok(b, ">", a), Tok(a, "=", b)>>, <<Tok("B", ">", "A"), Tok("A", ">>", "B")>>}

\* the provider call of the i-th role returns that role's answer
RoleAnswers(i) == RoleReturns(i, Returned(AnswerOf(i)))

\* the pending judge call returns one of the wider texts
JudgeAnswers ==
    /\ pc = "review"
    /\ \E text \in WideJudgeTexts(PendingCall(review).a, PendingCall(review).b) :
          JudgeStep(Returned(text), calls)
    /\ UNCHANGED <<chairman, events, invoked, registry, provider, config, task, tasks>>

InitJudging ==
    Init /\ provider # None /\ config.enable_peer_review
         /\ config.output_mode = "perspectives"

NextJudging ==
    \/ Deliberate
    \/ \E i \in 1..MaxRoles : RunRole(i)
    \/ \E i \in 1..MaxRoles : RoleAnswers(i)
    \/ \E perm \in UNION {Permutations(1..n) : n \in 0..MaxRoles} : GatherComplete(perm)
    \/ JudgeAnswers

SpecJudging == InitJudging /\ [][NextJudging]_vars

\* the positions of the verdict tokens over the labels a and b in a text
TokensOver(text, a, b) ==
    {k \in 1..Len(text) : text[k] \in LabelledTokens(a, b)}

\* what a judge step must do with the text it obtained for the pending call
JudgmentRecorded ==
    LET call == PendingCall(review)
        text == review'.judgment_text
        toks == TokensOver(text, call.a, call.b)
        old == review.pairwise_comparisons
        new == review'.pairwise_comparisons
    IN /\ (Cardinality(toks) = 1
            /\ \A k \in toks : text[k].op \in {">>", ">"}) =>
             LET t == text[CHOOSE k \in toks : TRUE]
                 rec == VerdictToResult(new[Len(new)])
                 won == IF rec.winner = "a" THEN rec.item_a ELSE rec.item_b
             IN /\ Len(new) = Len(old) + 1
                /\ new[Len(new)][1] = call.model
                /\ ~rec.skip
                /\ rec.winner \in {"a", "b"}
                /\ rec.margin = (IF t.op = ">>" THEN "major" ELSE "minor")
                /\ review.anonymous_map[won] = t.l
                /\ \E i \in 1..Len(Successful) :
                      /\ Successful[i].model = won
                      /\ Successful[i].content = review.response_map[t.l]
       /\ (\A k \in 1..Len(text) : text[k] = Word) => new = old

\* C17: a judge text with exactly one verdict token over the two labels of the
\* prompt, naming a winner, appends one record of that judge that credits the
\* model whose response was shown under the winning label, with the token's
\* margin, with and without anonymization and for every shuffle; a text
\* without a verdict token appends no record.
C17_VerdictCreditsWinner == [][pc = "review" => JudgmentRecorded]_vars

\* C17 witness: under anonymization the token [[A2>>A1]] has given the second
\* model of the pair, shown under the label A2, a major win.
C17_Witness ==
    /\ config.anonymize
    /\ review.models = <<"m1", "m2">>
    /\ review.anonymous_map = [m1 |-> "A1", m2 |-> "A2"]
    /\ review.response_map = [A1 |-> "answer", A2 |-> "other"]
    /\ review.judgment_text = <<Tok("A2", ">>", "A1")>>
    /\ Len(review.pairwise_comparisons) = 1
    /\ review.pairwise_comparisons[1][4] = <<"B", ">>", "A">>

(***************************************************************************)
(* compute_scores_from_pairwise applied to lists of comparisons            *)
(***************************************************************************)
MaxRecords == 3

\* the participants of the lists given to compute_scores_from_pairwise
ScoredModels == <<"m1", "m2", "m3">>

\* records (judge_model, model_a, model_b, verdict) with model_a before model_b
\* as itertools.combinations yields them, and one of the five verdicts
ComparisonRecords ==
    {<<"m1", p[1], p[2], Verdicts[v]>> :
        p \in Range(ModelPairs(ScoredModels)), v \in 1..Len(Verdicts)}

ComparisonLists ==
    UNION {[1..n -> ComparisonRecords] : n \in 0..MaxRecords}

\* an orchestrator on a council that has not deliberated, and the list that
\* compute_scores_from_pairwise is going to be called with
InitScores ==
    /\ registry = <<>>
    /\ provider = None
    /\ config \in {c \in Configs : c.output_mode = "perspectives"
                                    /\ c.enable_peer_review /\ ~c.anonymize}
    /\ task = "task"
    /\ pc = "start"
    /\ tasks = <<>>
    /\ output = CouncilOutput("", "perspectives")
    /\ review = NoReview
    /\ calls = <<>>
    /\ raised = NoException
    /\ chairman = NoReply
    /\ events = <<>>
    /\ \E cs \in ComparisonLists : invoked = [NoInvocation EXCEPT !.args = cs]

\* the call compute_scores_from_pairwise(pairwise_comparisons)
ScoresCall ==
    /\ invoked.fn = None
    /\ LET r == ComputeScoresFromPairwise(invoked.args)
       IN invoked' = [invoked EXCEPT !.fn = "compute_scores_from_pairwise",
                                     !.exc = r.exc, !.value = r.value]
    /\ UNCHANGED <<chairman, events, registry, provider, config, task,
                   pc, tasks, output, review, calls, raised>>

NextScores == ScoresCall

SpecScores == InitScores /\ [][NextScores]_vars

ScoresReturned == invoked.fn = "compute_scores_from_pairwise"

\* the participants: what appears as model_a or model_b in the records
Participants(cs) == {cs[i][2] : i \in 1..Len(cs)} \cup {cs[i][3] : i \in 1..Len(cs)}

\* the number of records of cs that x won with the operator op
WinsOf(cs, x, op) ==
    Cardinality({i \in 1..Len(cs) :
        \/ cs[i][4] = <<"A", op, "B">> /\ cs[i][2] = x
        \/ cs[i][4] = <<"B", op, "A">> /\ cs[i][3] = x})

TiesOf(cs, x) ==
    Cardinality({i \in 1..Len(cs) :
        cs[i][4] = <<"A", "=", "B">> /\ x \in {cs[i][2], cs[i][3]}})

\* 3 per major win, 1 per minor win, 0.5 per tie, in units of 0.5
BordaExpected(cs, x) == 6 * WinsOf(cs, x, ">>") + 2 * WinsOf(cs, x, ">") + TiesOf(cs, x)

\* C18: for every list of comparisons with verdicts among the five,
\* compute_scores_from_pairwise returns Borda scores that give each participant
\* 3 per major win, 1 per minor win and 0.5 per tie it is involved in.
C18_BordaWeights ==
    ScoresReturned =>
        /\ invoked.exc = None
        /\ DOMAIN invoked.value = AggregationMethods
        /\ \A x \in Participants(invoked.args) :
              /\ x \in DOMAIN invoked.value.borda.scores
              /\ invoked.value.borda.scores[x] = BordaExpected(invoked.args, x)

\* C19: on a non-empty list of records, the keys of the scores of each of
\* borda, bradley_terry and elo are exactly the participants of the records.
C19_ScoreKeysAreParticipants ==
    (ScoresReturned /\ invoked.args # <<>> /\ invoked.exc = None) =>
        \A m \in AggregationMethods :
            DOMAIN invoked.value[m].scores = Participants(invoked.args)

(***************************************************************************)
(* Deliberations under each aggregation method                             *)
(***************************************************************************)
\* configurations with peer review, one per aggregation method and output mode
MethodConfigs ==
    [output_mode : {"perspectives", "synthesis"},
     aggregation_method : AggregationMethods,
     enable_peer_review : {TRUE}, anonymize : {FALSE}, chairman_model : {None}]

InitMethods ==
    /\ registry \in RegistriesWith({<<>>})
    /\ provider = "provider"
    /\ config \in MethodConfigs
    /\ task = "task"
    /\ pc = "start"
    /\ tasks = <<>>
    /\ output = CouncilOutput("", "perspectives")
    /\ review = NoReview
    /\ calls = <<>>
    /\ raised = NoException
    /\ chairman = NoReply
    /\ events = <<>>
    /\ invoked = NoInvocation

SpecMethods == InitMethods /\ [][Next]_vars

\* deliberate has passed the scoring of a non-empty list of records
ScoredRecords ==
    /\ pc \in {"synth", "done"}
    /\ review.finished
    /\ review.pairwise_comparisons # <<>>

\* C20: when judging produced at least one record and deliberate goes on to
\* return an Output, aggregate_rankings is the scores entry of the configured
\* method, for each of the three methods, and aggregation_scores is what
\* compute_scores_from_pairwise gives for the records, with Borda values fixed
\* by the records alone, whatever method is configured.
C20_PrimaryMethodCopied ==
    ScoredRecords =>
        /\ DOMAIN output.aggregation_scores = AggregationMethods
        /\ output.aggregate_rankings =
              output.aggregation_scores[config.aggregation_method].scores
        /\ output.aggregation_scores =
              ComputeScoresFromPairwise(review.pairwise_comparisons).value
        /\ \A x \in DOMAIN output.aggregation_scores.borda.scores :
              output.aggregation_scores.borda.scores[x] =
                  BordaExpected(review.pairwise_comparisons, x)

\* C20 witness: an Output returned under the method elo after two records,
\* whose aggregate_rankings are the Elo scores of the two models.
C20_Witness ==
    /\ pc = "done"
    /\ config.aggregation_method = "elo"
    /\ Len(review.pairwise_comparisons) = 2
    /\ output.aggregate_rankings = [m1 |-> "elo", m2 |-> "elo"]
    /\ DOMAIN output.aggregation_scores.borda.scores = {"m1", "m2"}

(***************************************************************************)
(* roles/registry.py: add, remove and clear on a RoleRegistry              *)
(***************************************************************************)
MaxOps == 4

\* self._roles[role.name] = role without the membership test: the value of an
\* existing key is replaced in place
AddOverwriting(reg, role) ==
    [registry |-> IF \E i \in 1..Len(reg) : reg[i].name = role.name
                  THEN [i \in 1..Len(reg) |->
                            IF reg[i].name = role.name THEN role ELSE reg[i]]
                  ELSE Append(reg, role),
     raised |-> NoException]

\* RoleRegistry.add: ValueError if the name is a key, else a new last key
RegistryAdd(reg, role) ==
    IF \E i \in 1..Len(reg) : reg[i].name = role.name
    THEN [registry |-> reg, raised |-> [type |-> "ValueError", cause |-> None]]
    ELSE [registry |-> Append(reg, role), raised |-> NoException]

\* RoleRegistry.remove: del of the key if present
RegistryRemove(reg, name) == SelectSeq(reg, LAMBDA r : r.name # name)

InitRegistry ==
    /\ registry = <<>>
    /\ provider = None
    /\ config \in {c \in Configs : c.output_mode = "perspectives"
                                    /\ c.enable_peer_review /\ ~c.anonymize}
    /\ task = "task"
    /\ pc = "start"
    /\ tasks = <<>>
    /\ output = CouncilOutput("", "perspectives")
    /\ review = NoReview
    /\ calls = <<>>
    /\ raised = NoException
    /\ chairman = NoReply
    /\ events = <<>>
    /\ invoked = NoInvocation

\* registry.add(Role(name, model)); calls keeps the operations made so far
Add(name, model) ==
    /\ Len(calls) < MaxOps
    /\ LET r == RegistryAdd(registry, Role(name, model, <<>>))
       IN registry' = r.registry /\ raised' = r.raised
    /\ calls' = Append(calls, Call("add", name, model, None, None))
    /\ UNCHANGED <<chairman, events, invoked, provider, config, task, pc, tasks,
                   output, review>>

\* registry.remove(name)
Remove(name) ==
    /\ Len(calls) < MaxOps
    /\ registry' = RegistryRemove(registry, name)
    /\ raised' = NoException
    /\ calls' = Append(calls, Call("remove", name, None, None, None))
    /\ UNCHANGED <<chairman, events, invoked, provider, config, task, pc, tasks,
                   output, review>>

\* registry.clear()
Clear ==
    /\ Len(calls) < MaxOps
    /\ registry' = <<>>
    /\ raised' = NoException
    /\ calls' = Append(calls, Call("clear", 0, None, None, None))
    /\ UNCHANGED <<chairman, events, invoked, provider, config, task, pc, tasks,
                   output, review>>

NextRegistry ==
    \/ \E name \in RoleNames, model \in Models : Add(name, model)
    \/ \E name \in RoleNames : Remove(name)
    \/ Clear

SpecRegistry == InitRegistry /\ [][NextRegistry]_vars

\* the last operation of the log that made name absent, 0 if there is none
LastAbsence(log, name) ==
    LET S == {k \in 1..Len(log) :
                \/ log[k].kind = "clear"
                \/ log[k].kind = "remove" /\ log[k].who = name}
    IN IF S = {} THEN 0 ELSE CHOOSE k \in S : \A j \in S : j <= k

\* the adds of name since it was last absent
AddsSince(log, name) ==
    {k \in (LastAbsence(log, name) + 1)..Len(log) :
        log[k].kind = "add" /\ log[k].who = name}

\* the add that inserted name: the first one since it was last absent
Insertion(log, name) == CHOOSE k \in AddsSince(log, name) : \A j \in AddsSince(log, name) : k <= j

PresentNames(log) == {name \in RoleNames : AddsSince(log, name) # {}}

RegistryIsWellFormed ==
    /\ \A i, j \in 1..Len(registry) : registry[i].name = registry[j].name => i = j
    /\ Len(registry) = Cardinality(PresentNames(calls))
    /\ {registry[i].name : i \in 1..Len(registry)} = PresentNames(calls)
    /\ \A i, j \in 1..Len(registry) :
          i < j => Insertion(calls, registry[i].name) < Insertion(calls, registry[j].name)
    /\ \A i \in 1..Len(registry) :
          registry[i].model = calls[Insertion(calls, registry[i].name)].model

\* the last operation was an add of a name that was present before it
AddedPresentName ==
    /\ calls # <<>>
    /\ calls[Len(calls)].kind = "add"
    /\ calls[Len(calls)].who \in PresentNames(SubSeq(calls, 1, Len(calls) - 1))

\* C21: after any sequence of add, remove and clear, the names of the registry
\* are unique, its length is the number of names added and not removed since,
\* iteration follows the order of the latest insertions, and an add of a
\* present name raises ValueError and leaves the registered role as it was.
C21_RegistryInsertionOrder ==
    /\ RegistryIsWellFormed
    /\ AddedPresentName <=> raised.type = "ValueError"

\* C21 witness: after an add, a remove and an add the registry iterates role 2
\* before role 1, and the add of role 2 with another model has then raised and
\* left role 2 with the model it was added with.
C21_Witness ==
    /\ Len(calls) = 4
    /\ [k \in 1..3 |-> calls[k].kind] = <<"add", "remove", "add">>
    /\ calls[4] = Call("add", 2, "m2", None, None)
    /\ registry = <<Role(2, "m1", <<>>), Role(1, "m1", <<>>)>>
    /\ raised.type = "ValueError"

(***************************************************************************)
(* Library functions called on their own: the arguments are drawn in the   *)
(* initial state and the call stores its outcome in invoked                *)
(***************************************************************************)
InitLibrary(inputs) ==
    /\ registry = <<>>
    /\ provider = None
    /\ config \in {c \in Configs : c.output_mode = "perspectives"
                                    /\ c.enable_peer_review /\ ~c.anonymize}
    /\ task = "task"
    /\ pc = "start"
    /\ tasks = <<>>
    /\ output = CouncilOutput("", "perspectives")
    /\ review = NoReview
    /\ calls = <<>>
    /\ raised = NoException
    /\ chairman = NoReply
    /\ events = <<>>
    /\ \E a \in inputs : invoked = [NoInvocation EXCEPT !.args = a]

\* a call of fn whose outcome is r; the argument stays in invoked.args
LibraryCall(fn, r) ==
    /\ invoked.fn = None
    /\ invoked' = [invoked EXCEPT !.fn = fn, !.exc = r.exc, !.value = r.value]
    /\ UNCHANGED <<chairman, events, registry, provider, config, task,
                   pc, tasks, output, review, calls, raised>>

LibraryReturned(fn) == invoked.fn = fn /\ invoked.exc = None

\* how many times x occurs in the sequence s
CountIn(s, x) == Cardinality({i \in 1..Len(s) : s[i] = x})

SameMultiset(s, t) ==
    /\ Len(s) = Len(t)
    /\ \A x \in Range(s) \cup Range(t) : CountIn(s, x) = CountIn(t, x)

(***************************************************************************)
(* anonymization/core.py: anonymize_responses and de_anonymize             *)
(***************************************************************************)
MaxResults == 3

\* role names are sequences of pieces, so that f"{original_name}_{k}" is the
\* name with one more piece
NameSuffix(k) == <<"_1", "_2", "_3", "_4", "_5", "_6">>[k]

ResultRoleNames == {<<"a">>, <<"b">>, <<"a", "_1">>}

ResultLists ==
    UNION {[1..n -> {CouncilResult(nm, c, "m1", None) :
                        nm \in ResultRoleNames, c \in {"c1", "c2"}}] :
           n \in 0..MaxResults}

\* the loop over seen_names: a result whose original name was seen k times
\* before it gets the name with the suffix _k
RenameDuplicates(results) ==
    [i \in 1..Len(results) |->
        LET k == Cardinality({j \in 1..(i - 1) :
                                 results[j].role_name = results[i].role_name})
        IN IF k = 0 THEN results[i]
           ELSE [results[i] EXCEPT !.role_name = Append(@, NameSuffix(k))]]

\* de_anonymize: one CouncilResult per AnonymizedResult, in the same order
DeAnonymize(anonymized_results) ==
    [k \in 1..Len(anonymized_results) |->
        CouncilResult(anonymized_results[k].role_name, anonymized_results[k].content,
                      anonymized_results[k].model, anonymized_results[k].error)]

\* de_anonymize(anonymize_responses(results)); perm is the order the shuffle
\* leaves, the identity with shuffle=False
RoundTrip(perm) ==
    LET an == AnonymizeResponses(RenameDuplicates(invoked.args), perm)
    IN LibraryCall("de_anonymize",
                   [exc |-> None,
                    value |-> [anonymized |-> an, restored |-> DeAnonymize(an)]])

InitAnonymize == InitLibrary(ResultLists)

NextAnonymize == \E perm \in Permutations(1..Len(invoked.args)) : RoundTrip(perm)

SpecAnonymize == InitAnonymize /\ [][NextAnonymize]_vars

\* the labels of the anonymized results are pairwise distinct, one per result
LabelsDistinct ==
    LET an == invoked.value.anonymized
    IN /\ Len(an) = Len(invoked.args)
       /\ \A i, j \in 1..Len(an) : an[i].anonymous_id = an[j].anonymous_id => i = j

\* C22: anonymize_responses gives n results n pairwise distinct labels, and
\* de_anonymize of its result is the given list as a multiset of results, for
\* every list, also one with a repeated role name, and every shuffle.
C22_AnonymizeRoundTrip ==
    LibraryReturned("de_anonymize") =>
        /\ LabelsDistinct
        /\ SameMultiset(invoked.value.restored, invoked.args)

(***************************************************************************)
(* anonymization/core.py: parse_ranking_from_text                          *)
(***************************************************************************)
MaxTokens == 5

\* a text is its tokens joined by single spaces: labels, a plain word, the
\* arrow, the line break and the list number "1."
Labels == {"A1", "A2", "A3"}

TextTokens == {"A1", "A2", "foo", ">", "NL", "1."}

Texts == UNION {[1..n -> TextTokens] : n \in 0..MaxTokens}

\* lists of distinct valid labels
ValidIdLists == {<<"A1">>, <<"A1", "A2">>, <<"A2", "A1">>, <<"A2", "A3", "A1">>}

\* the least element of a non-empty set of numbers
Least(S) == CHOOSE k \in S : \A j \in S : k <= j

\* re.split / str.split on one separator token: the segments between its
\* occurrences, empty segments included
RECURSIVE SplitOn(_, _)
SplitOn(toks, sep) ==
    LET at == {k \in 1..Len(toks) : toks[k] = sep}
    IN IF at = {} THEN <<toks>>
       ELSE <<SubSeq(toks, 1, Least(at) - 1)>>
                \o SplitOn(SubSeq(toks, Least(at) + 1, Len(toks)), sep)

\* str.strip: line breaks at both ends go away
RECURSIVE Strip(_)
Strip(toks) ==
    IF toks = <<>> THEN toks
    ELSE IF Head(toks) = "NL" THEN Strip(Tail(toks))
    ELSE IF toks[Len(toks)] = "NL" THEN Strip(SubSeq(toks, 1, Len(toks) - 1))
    ELSE toks

\* _extract_id with a non-empty valid_ids; <<>> stands for None. The first
\* token that looks like an id is returned if valid, else the first valid id
\* that occurs in the text
ExtractId(part, valid_ids) ==
    LET at == {k \in 1..Len(part) : part[k] \in Labels}
        occ == {i \in 1..Len(valid_ids) : valid_ids[i] \in Range(part)}
    IN IF at = {} THEN <<>>
       ELSE IF part[Least(at)] \in Range(valid_ids) THEN <<part[Least(at)]>>
       ELSE IF occ = {} THEN <<>> ELSE <<valid_ids[Least(occ)]>>

\* the ids extracted from the parts, in order, parts without id skipped
RECURSIVE ExtractAll(_, _)
ExtractAll(parts, valid_ids) ==
    IF parts = <<>> THEN <<>>
    ELSE ExtractId(Strip(Head(parts)), valid_ids) \o ExtractAll(Tail(parts), valid_ids)

\* `if x not in ids: ids.append(x)` over a list
RECURSIVE Dedupe(_)
Dedupe(ids) ==
    IF ids = <<>> THEN <<>>
    ELSE LET front == Dedupe(SubSeq(ids, 1, Len(ids) - 1))
             last == ids[Len(ids)]
         IN IF last \in Range(front) THEN front ELSE Append(front, last)

\* `return ids if len(ids) >= 2 else None`
AtLeastTwo(ids) == IF Len(ids) >= 2 THEN ids ELSE <<>>

\* _parse_arrow_notation
ParseArrowNotation(text, valid_ids) ==
    LET parts == SplitOn(text, ">")
    IN IF Len(parts) < 2 THEN <<>> ELSE AtLeastTwo(ExtractAll(parts, valid_ids))

\* _parse_numbered_list on lines "1. content": all ranks are 1 and the sort is
\* stable, so the items stay in the order of their lines
ParseNumberedList(text, valid_ids) ==
    LET lines == SplitOn(text, "NL")
        numbered == SelectSeq(lines, LAMBDA l : Len(l) >= 2 /\ Head(l) = "1.")
        contents == [k \in 1..Len(numbered) |-> Tail(numbered[k])]
    IN AtLeastTwo(ExtractAll(contents, valid_ids))

\* _parse_simple_list: the parts between line breaks, then the valid ids that
\* occur in the text, ordered by their first position
ParseSimpleList(text, valid_ids) ==
    LET ids == Dedupe(ExtractAll(SplitOn(text, "NL"), valid_ids))
        hits == {k \in 1..Len(text) :
                    /\ text[k] \in Range(valid_ids)
                    /\ \A j \in 1..(k - 1) : text[j] # text[k]}
        first == SelectSeq([k \in 1..Len(text) |-> IF k \in hits THEN <<text[k]>> ELSE <<>>],
                           LAMBDA c : c # <<>>)
    IN IF Len(ids) >= 2 THEN ids
       ELSE AtLeastTwo([k \in 1..Len(first) |-> first[k][1]])

\* _parse_natural_language: at least two occurrences of valid ids, duplicates
\* removed, at least two left
ParseNaturalLanguage(text, valid_ids) ==
    LET found == SelectSeq(text, LAMBDA t : t \in Range(valid_ids))
    IN IF Len(found) < 2 THEN <<>>
       ELSE LET rev == [k \in 1..Len(found) |-> found[Len(found) + 1 - k]]
                kept == Dedupe(rev)
            IN AtLeastTwo([k \in 1..Len(kept) |-> kept[Len(kept) + 1 - k]])

\* _ensure_all_ids_included
RECURSIVE EnsureAllIdsIncluded(_, _)
EnsureAllIdsIncluded(rankings, valid_ids) ==
    IF valid_ids = <<>> THEN rankings
    ELSE EnsureAllIdsIncluded(
            IF Head(valid_ids) \in Range(rankings) THEN rankings
            ELSE Append(rankings, Head(valid_ids)),
            Tail(valid_ids))

\* parse_ranking_from_text(text, valid_ids, ensure_all_ids=True) for a text of
\* these tokens and a non-empty valid_ids: _parse_reverse_ranking,
\* _parse_table_format and _parse_response_labels find nothing in such a text
ParseRankingFromText(text, valid_ids) ==
    LET t == Strip(text)
        arrow == ParseArrowNotation(t, valid_ids)
        numbered == ParseNumberedList(t, valid_ids)
        simple == ParseSimpleList(t, valid_ids)
        natural == ParseNaturalLanguage(t, valid_ids)
    IN IF t = <<>> THEN <<>>
       ELSE IF arrow # <<>> THEN EnsureAllIdsIncluded(arrow, valid_ids)
       ELSE IF numbered # <<>> THEN EnsureAllIdsIncluded(numbered, valid_ids)
       ELSE IF simple # <<>> THEN EnsureAllIdsIncluded(simple, valid_ids)
       ELSE IF natural # <<>> THEN EnsureAllIdsIncluded(natural, valid_ids)
       ELSE valid_ids

InitRanking ==
    InitLibrary({[text |-> t, valid_ids |-> v] : t \in Texts, v \in ValidIdLists})

ParseRankingCall ==
    LibraryCall("parse_ranking_from_text",
                [exc |-> None,
                 value |-> ParseRankingFromText(invoked.args.text, invoked.args.valid_ids)])

NextRanking == ParseRankingCall

SpecRanking == InitRanking /\ [][NextRanking]_vars

\* C23: for every text and every non-empty list V of distinct valid labels,
\* parse_ranking_from_text(text, V, ensure_all_ids=True) is a permutation of V,
\* also for a text that repeats a label and for the empty text.
C23_RankingIsPermutation ==
    LibraryReturned("parse_ranking_from_text") =>
        SameMultiset(invoked.value, invoked.args.valid_ids)

(***************************************************************************)
(* Judge texts with several verdict tokens                                 *)
(***************************************************************************)
\* the place of a token in the fixed order a>>b, a>b, a=b, b>a, b>>a; 0 if it
\* is none of the five
VerdictRank(t, a, b) ==
    CASE t = Tok(a, ">>", b) -> 1
      [] t = Tok(a, ">", b) -> 2
      [] t = Tok(a, "=", b) -> 3
      [] t = Tok(b, ">", a) -> 4
      [] t = Tok(b, ">>", a) -> 5
      [] OTHER -> 0

RanksIn(text, a, b) == {VerdictRank(text[k], a, b) : k \in 1..Len(text)} \ {0}

\* what a judge step does with a text that holds more than one verdict token
SeveralTokensJudged ==
    LET call == PendingCall(review)
        text == review'.judgment_text
        labelled == RanksIn(text, call.a, call.b)
        plain == RanksIn(text, "A", "B")
        old == review.pairwise_comparisons
        new == review'.pairwise_comparisons
        tokens == {k \in 1..Len(text) : text[k] # Word}
    IN (Cardinality(tokens) >= 2 /\ labelled \cup plain # {}) =>
          /\ Len(new) = Len(old) + 1
          /\ SubSeq(new, 1, Len(old)) = old
          /\ new[Len(new)][4] =
                Verdicts[IF labelled # {} THEN Least(labelled) ELSE Least(plain)]

\* C29: a judge text with more than one bracketed verdict token gives the
\* verdict of the first of a>>b, a>b, a=b, b>a, b>>a that occurs anywhere in
\* it, whatever the positions of the tokens, and the label-free tokens count
\* only when no labelled token occurs.
C29_FirstPatternWins == [][pc = "review" => SeveralTokensJudged]_vars

\* C29 witness: the text [[m1>>m2]] ... [[m2>m1]] concludes with m2 slightly
\* better and is recorded as A>>B.
C29_Witness ==
    /\ ~config.anonymize
    /\ review.judgment_text = <<Tok("m1", ">>", "m2"), Tok("m2", ">", "m1")>>
    /\ Len(review.pairwise_comparisons) = 1
    /\ review.pairwise_comparisons[1][4] = <<"A", ">>", "B">>

(***************************************************************************)
(* Deliberations of a council in which two roles share a model             *)
(***************************************************************************)
\* registries of three roles, two of them on the model m1
SharedModelRegistries ==
    {<<Role(1, "m1", <<>>), Role(2, "m1", <<>>), Role(3, "m2", <<>>)>>,
     <<Role(1, "m1", <<>>), Role(2, "m2", <<>>), Role(3, "m1", <<>>)>>}

InitShared ==
    /\ registry \in SharedModelRegistries
    /\ provider = "provider"
    /\ config \in {c \in Configs : c.output_mode = "perspectives"
                                    /\ c.enable_peer_review /\ ~c.anonymize}
    /\ task = "task"
    /\ pc = "start"
    /\ tasks = <<>>
    /\ output = CouncilOutput("", "perspectives")
    /\ review = NoReview
    /\ calls = <<>>
    /\ raised = NoException
    /\ chairman = NoReply
    /\ events = <<>>
    /\ invoked = NoInvocation

NextShared ==
    \/ Deliberate
    \/ \E i \in 1..Len(registry) : RunRole(i)
    \/ \E i \in 1..Len(registry) : RoleAnswers(i)
    \/ GatherComplete([k \in 1..Len(registry) |-> k])
    \/ JudgeReturns

SpecShared == InitShared /\ [][NextShared]_vars

\* the number of texts stored over all keys of a peer_review_texts dict
TotalTexts(texts) == SumOver([k \in DOMAIN texts |-> Len(texts[k])], DOMAIN texts)

\* a judge step keeps the texts stored so far and adds the text it obtained if
\* that text is not empty; what deliberate stores is what the review returned
TextRetained ==
    /\ TotalTexts(review'.peer_review_texts) =
          TotalTexts(review.peer_review_texts)
              + (IF review'.judgment_text # <<>> THEN 1 ELSE 0)
    /\ review'.finished => output'.peer_review_texts = review'.peer_review_texts

\* C30: peer_review_texts keeps every non-empty judgment text of the judging
\* phase, parseable or not: each judgment that returns a non-empty text raises
\* the number of stored texts by one and no stored text is ever lost, also when
\* two judge roles share a model id.
C30_TextsRetained == [][pc = "review" => TextRetained]_vars

(***************************************************************************)
(* analysis/agreement.py: JudgeAgreementAnalyzer.get_agreement_matrix      *)
(***************************************************************************)
MaxJudges == 2

JudgeNames == <<"j1", "j2", "j3", "j4">>

\* RoleReview.rankings: lists over the items A, B and b
Rankings ==
    {<<>>, <<"A", "B">>, <<"B", "A">>, <<"A", "b">>, <<"B", "b", "A">>, <<"A", "B", "A">>}

\* the reviews of one judge, by their rankings
ReviewLists ==
    {<<>>} \cup {<<r>> : r \in Rankings} \cup {<<r1, r2>> : r1 \in Rankings, r2 \in Rankings}

\* reviews_by_judge: a dict from judge names to their reviews
ReviewsByJudge ==
    UNION {[{JudgeNames[k] : k \in 1..n} -> ReviewLists] : n \in 1..MaxJudges}

\* a float quotient of two counts, kept as the reduced fraction
Quotient(m, n) ==
    LET g == CHOOSE d \in 1..n : /\ m % d = 0 /\ n % d = 0
                                 /\ \A e \in (d + 1)..n : ~(m % e = 0 /\ n % e = 0)
    IN [num |-> m \div g, den |-> n \div g]

\* str.upper on an item
Upper(x) == IF x = "b" THEN "B" ELSE x

\* convert_reviews_to_matrix: the keys (item_a, item_b) with item_a ranked
\* before item_b in some review; the rating under a key is f"{item_a}>{item_b}"
ConvertReviewsToMatrix(reviews) ==
    UNION {{<<reviews[k][p[1]], reviews[k][p[2]]>> :
                p \in {q \in (1..Len(reviews[k])) \X (1..Len(reviews[k])) : q[1] < q[2]}} :
           k \in 1..Len(reviews)}

RawRating(key) == <<key[1], ">", key[2]>>

\* _get_comparison_side of a raw rating string
GetComparisonSide(rating) ==
    LET up == [k \in 1..Len(rating) |-> Upper(rating[k])]
    IN IF up = <<"A", ">", "B">> THEN "a"
       ELSE IF up = <<"B", ">", "A">> THEN "b"
       ELSE "tie"

\* matches / len(common items) counted over the keys of the first judge alone
AgreementOverFirst(reviews_by_judge, judge_a, judge_b, method) ==
    LET ca == ConvertReviewsToMatrix(reviews_by_judge[judge_a])
        cb == ConvertReviewsToMatrix(reviews_by_judge[judge_b])
    IN IF ca \cap cb = {} THEN Quotient(0, 1)
       ELSE Quotient(Cardinality(ca \cap cb), Cardinality(ca))

\* calculate_agreement for the methods exact and sidewise
CalculateAgreement(reviews_by_judge, judge_a, judge_b, method) ==
    LET ca == ConvertReviewsToMatrix(reviews_by_judge[judge_a])
        cb == ConvertReviewsToMatrix(reviews_by_judge[judge_b])
        common == ca \cap cb
        exact == {key \in common : RawRating(key) = RawRating(key)}
        sidewise ==
            {key \in common :
                LET side_a == GetComparisonSide(RawRating(key))
                    side_b == GetComparisonSide(RawRating(key))
                IN side_a = side_b \/ side_a = "tie" \/ side_b = "tie"}
    IN IF common = {} THEN Quotient(0, 1)
       ELSE IF method = "exact" THEN Quotient(Cardinality(exact), Cardinality(common))
       ELSE Quotient(Cardinality(sidewise), Cardinality(common))

\* get_agreement_matrix
GetAgreementMatrix(reviews_by_judge, method) ==
    [judge_a \in DOMAIN reviews_by_judge |->
        [judge_b \in DOMAIN reviews_by_judge |->
            IF judge_a = judge_b THEN Quotient(1, 1)
            ELSE CalculateAgreement(reviews_by_judge, judge_a, judge_b, method)]]

InitAgreement == InitLibrary(ReviewsByJudge)

AgreementMatrixCall(method) ==
    LibraryCall(method, [exc |-> None, value |-> GetAgreementMatrix(invoked.args, method)])

NextAgreement == \E method \in {"exact", "sidewise"} : AgreementMatrixCall(method)

SpecAgreement == InitAgreement /\ [][NextAgreement]_vars

\* C25: the matrix of get_agreement_matrix("exact") and of
\* get_agreement_matrix("sidewise") has 1.0 on its diagonal and the same value
\* at [a][b] and at [b][a], for every pair of judges and every set of reviews.
C25_AgreementMatrixSymmetric ==
    \A method \in {"exact", "sidewise"} :
        LibraryReturned(method) =>
            /\ DOMAIN invoked.value = DOMAIN invoked.args
            /\ \A a \in DOMAIN invoked.args :
                  /\ DOMAIN invoked.value[a] = DOMAIN invoked.args
                  /\ invoked.value[a][a] = [num |-> 1, den |-> 1]
                  /\ \A b \in DOMAIN invoked.args :
                        invoked.value[a][b] = invoked.value[b][a]

\* C25 witness: two judges whose reviews differ and share only a part of the
\* first judge's comparisons agree exactly in both directions.
C25_Witness ==
    /\ LibraryReturned("exact")
    /\ invoked.args = [j1 |-> << <<"B", "b", "A">> >>, j2 |-> << <<"A", "b">>, <<"B", "A">> >>]
    /\ invoked.value["j1"]["j2"] = [num |-> 1, den |-> 1]
    /\ invoked.value["j2"]["j1"] = [num |-> 1, den |-> 1]

(***************************************************************************)
(* analysis/elo.py: compute_mle_elo and bootstrap_elo                      *)
(***************************************************************************)
MaxPairwise == 2

NumRounds == 3

InitRating == 1000

ResampleThreshold == 100

\* the state of numpy's global generator: a small linear congruential
\* generator stands in for the Mersenne Twister
RngStates == 0..6

RngNext(rng) == (3 * rng + 1) % 7

\* the interpreter's packages: compute_mle_elo needs numpy and scikit-learn
Installed == {{}, {"numpy"}, {"numpy", "sklearn"}}

\* PairwiseResult objects that __post_init__ accepts
PairwiseResults ==
    {[item_a |-> p[1], item_b |-> p[2], winner |-> w, margin |-> g] :
        p \in {<<"x", "y">>, <<"y", "x">>, <<"y", "z">>},
        w \in {"a", "b", None}, g \in {"major", "minor"}}

PairwiseLists == UNION {[1..n -> PairwiseResults] : n \in 0..MaxPairwise}

\* lists of rankings handed to pairwise_from_rankings
RankingLists ==
    {<< <<"x", "y">> >>, << <<"y", "x", "z">> >>, << <<"x", "y">>, <<"y", "x">> >>,
     << <<"z", "x">>, <<"x", "y", "z">> >>}

\* pairwise_from_rankings with major_gap_threshold = 2
RECURSIVE PairwiseFromRankings(_)
PairwiseFromRankings(rankings) ==
    IF rankings = <<>> THEN <<>>
    ELSE LET ranking == Head(rankings)
             n == Len(ranking)
             pairs == Combinations2(n)
             of_one == [k \in 1..Len(pairs) |->
                          [item_a |-> ranking[pairs[k][1]], item_b |-> ranking[pairs[k][2]],
                           winner |-> "a",
                           margin |-> IF pairs[k][2] - pairs[k][1] >= 2
                                      THEN "major" ELSE "minor"]]
         IN of_one \o PairwiseFromRankings(Tail(rankings))

\* random_seed: <<>> for None, <<s>> for the integer s
Seeds == {<<>>, <<1>>, <<2>>}

\* the arguments of one call: the records (built from rankings when rankings
\* is not empty), random_seed and the packages that can be imported
EloInputs ==
    {[results |-> rs, rankings |-> <<>>, random_seed |-> seed, installed |-> pk] :
        rs \in PairwiseLists, seed \in Seeds, pk \in Installed}
    \cup
    {[results |-> PairwiseFromRankings(rk), rankings |-> rk, random_seed |-> <<>>,
      installed |-> {"numpy", "sklearn"}] : rk \in RankingLists}

\* _results_to_battles: a record is repeated three times for a major win
RECURSIVE ResultsToBattles(_)
ResultsToBattles(results) ==
    IF results = <<>> THEN <<>>
    ELSE LET result == Head(results)
             winner == IF result.winner = None THEN "tie"
                       ELSE IF result.winner = "a" THEN "model_a" ELSE "model_b"
             weight == IF result.winner # None /\ result.margin = "major" THEN 3 ELSE 1
             battle == [model_a |-> result.item_a, model_b |-> result.item_b,
                        winner |-> winner]
         IN [k \in 1..weight |-> battle] \o ResultsToBattles(Tail(results))

\* the target vector Y over the doubled battles: 1 for a win of model_a and
\* for a tie in the first half, 0 otherwise
Targets(battles) ==
    [i \in 1..Len(battles) |->
        IF battles[i].winner = "model_a" THEN 1
        ELSE IF battles[i].winner = "tie" /\ i <= Len(battles) \div 2 THEN 1
        ELSE 0]

\* a rating: init_rating plus what the logistic regression adds.  The fitted
\* coefficient is a float that is not computed: it is kept as the data that
\* determine it, the doubled battles and the model; <<>> stands for no fit.
Rating(fit) == [init_rating |-> InitRating, fit |-> fit]

\* len(np.unique(Y)) taken over the winners' names instead of over Y
WinnersOf(battles) ==
    {IF battles[i].winner = "model_a" THEN battles[i].model_a
     ELSE IF battles[i].winner = "model_b" THEN battles[i].model_b
     ELSE "tie" : i \in 1..Len(battles)}

\* np.unique(Y)
UniqueTargets(battles) == Range(Targets(battles))

\* compute_mle_elo(results, init_rating=InitRating) with both packages present
ComputeMleElo(results) ==
    LET single == ResultsToBattles(results)
        models == {single[i].model_a : i \in 1..Len(single)}
                      \cup {single[i].model_b : i \in 1..Len(single)}
        battles == single \o single
    IN IF results = <<>> \/ single = <<>> THEN EmptyDict
       ELSE IF Cardinality(UniqueTargets(battles)) < 2
            THEN [model \in models |-> Rating(<<>>)]
       ELSE [model \in models |-> Rating(<<battles, model>>)]

\* the call with its import checks
MleElo(results, installed) ==
    IF ~({"numpy", "sklearn"} \subseteq installed)
    THEN [exc |-> "ImportError", value |-> EmptyDict]
    ELSE [exc |-> None, value |-> ComputeMleElo(results)]

\* np.random.choice(len(results), size=len(results), replace=True): the
\* indices drawn and the generator's state after the draws
RECURSIVE Choice(_, _, _)
Choice(n, size, rng) ==
    IF size = 0 THEN [indices |-> <<>>, rng |-> rng]
    ELSE LET rest == Choice(n, size - 1, RngNext(rng))
         IN [indices |-> <<(rng % n) + 1>> \o rest.indices, rng |-> rest.rng]

\* every round resamples, whatever the number of records
AlwaysResample(results, rng) ==
    LET drawn == Choice(Len(results), Len(results), rng)
    IN [sample |-> [k \in 1..Len(results) |-> results[drawn.indices[k]]],
        rng |-> drawn.rng]

\* the sample of one round of bootstrap_elo
BootstrapSample(results, rng) ==
    IF Len(results) < ResampleThreshold THEN [sample |-> results, rng |-> rng]
    ELSE LET drawn == Choice(Len(results), Len(results), rng)
         IN [sample |-> [k \in 1..Len(results) |-> results[drawn.indices[k]]],
             rng |-> drawn.rng]

\* bootstrap_results after the given number of rounds: the ratings collected
\* for each item, in the order of the rounds; a round whose compute_mle_elo
\* raises adds nothing
RECURSIVE BootstrapRounds(_, _, _, _)
BootstrapRounds(results, installed, rng, rounds) ==
    IF rounds = 0 THEN EmptyDict
    ELSE LET taken == BootstrapSample(results, rng)
             elo_ratings == MleElo(taken.sample, installed)
             later == BootstrapRounds(results, installed, taken.rng, rounds - 1)
         IN IF elo_ratings.exc # None THEN later
            ELSE [item_id \in DOMAIN elo_ratings.value \cup DOMAIN later |->
                    (IF item_id \in DOMAIN elo_ratings.value
                     THEN <<elo_ratings.value[item_id]>> ELSE <<>>)
                    \o (IF item_id \in DOMAIN later THEN later[item_id] ELSE <<>>)]

\* np.median and np.percentile of an array: of equal floats it is that float
\* (the mean of the middle two, the interpolation between equal neighbours);
\* otherwise the statistic is not computed and is kept as its definition
Statistic(name, ratings) ==
    IF \A k \in 1..Len(ratings) : ratings[k] = ratings[1] THEN ratings[1]
    ELSE [statistic |-> name, of |-> ratings]

\* bootstrap_elo(results, num_rounds=NumRounds, random_seed=...) started with
\* the generator in state rng
BootstrapEloIntervals(results, installed, rng) ==
    IF "numpy" \notin installed THEN [exc |-> "ImportError", value |-> EmptyDict]
    ELSE IF Len(results) < 2 THEN [exc |-> None, value |-> EmptyDict]
    ELSE LET bootstrap_results == BootstrapRounds(results, installed, rng, NumRounds)
         IN [exc |-> None,
             value |-> [item_id \in DOMAIN bootstrap_results |->
                          <<Statistic("median", bootstrap_results[item_id]),
                            Statistic("percentile 2.5", bootstrap_results[item_id]),
                            Statistic("percentile 97.5", bootstrap_results[item_id])>>]]

\* the states the generator can be in after `if random_seed is not None:
\* np.random.seed(random_seed)`
SeededStates(random_seed) ==
    IF random_seed = <<>> THEN RngStates ELSE {random_seed[1]}

InitElo == InitLibrary(EloInputs)

MleEloCall ==
    LibraryCall("compute_mle_elo", MleElo(invoked.args.results, invoked.args.installed))

BootstrapEloCall ==
    \E rng \in SeededStates(invoked.args.random_seed) :
        LibraryCall("bootstrap_elo",
                    BootstrapEloIntervals(invoked.args.results, invoked.args.installed, rng))

NextElo == MleEloCall \/ BootstrapEloCall

SpecElo == InitElo /\ [][NextElo]_vars

\* ratings kept as their definitions are known to be ordered when they are equal
KnownLeq(x, y) == x = y

\* every record has winner "a", or every record has winner "b"
OneSided(results) ==
    /\ results # <<>>
    /\ \/ \A k \in 1..Len(results) : results[k].winner = "a"
       \/ \A k \in 1..Len(results) : results[k].winner = "b"

\* C28: when every record has winner "a" or every record has winner "b",
\* compute_mle_elo returns init_rating for each participant, whoever won; so
\* do the records that pairwise_from_rankings builds from any rankings.
C28_OneSidedBattlesGiveInitRating ==
    (/\ LibraryReturned("compute_mle_elo")
     /\ OneSided(invoked.args.results) \/ invoked.args.rankings # <<>>)
        => invoked.value = [model \in Items(invoked.args.results) |-> Rating(<<>>)]

\* C28 witness: x beats y in one record and y beats x in the other, both on
\* side "a"; both get init_rating.
C28_Witness ==
    /\ LibraryReturned("compute_mle_elo")
    /\ invoked.args.results =
          <<[item_a |-> "x", item_b |-> "y", winner |-> "a", margin |-> "minor"],
            [item_a |-> "y", item_b |-> "x", winner |-> "a", margin |-> "major"]>>
    /\ invoked.value = [model \in {"x", "y"} |-> Rating(<<>>)]

\* C28 witness of the second part: the two rankings x > y and y > x.
C28_RankingsWitness ==
    /\ LibraryReturned("compute_mle_elo")
    /\ invoked.args.rankings = << <<"x", "y">>, <<"y", "x">> >>
    /\ Len(invoked.args.results) = 2
    /\ invoked.value = [model \in {"x", "y"} |-> Rating(<<>>)]

\* C27: bootstrap_elo on fewer than ResampleThreshold records returns, for
\* each participant, three times the rating compute_mle_elo gives on the full
\* list: the result is the same from every state of the generator, hence for
\* every random_seed, and low <= median <= high.
C27_BootstrapIgnoresSeed ==
    LibraryReturned("bootstrap_elo") =>
        /\ \A rng \in RngStates :
              BootstrapEloIntervals(invoked.args.results, invoked.args.installed, rng).value
                  = invoked.value
        /\ \A item_id \in DOMAIN invoked.value :
              /\ invoked.value[item_id][1] = ComputeMleElo(invoked.args.results)[item_id]
              /\ KnownLeq(invoked.value[item_id][2], invoked.value[item_id][1])
              /\ KnownLeq(invoked.value[item_id][1], invoked.value[item_id][3])

\* C27 witness: two records with different outcomes under random_seed = 2; the
\* ratings are fitted ones.
C27_Witness ==
    /\ LibraryReturned("bootstrap_elo")
    /\ invoked.args.random_seed = <<2>>
    /\ invoked.args.results =
          <<[item_a |-> "x", item_b |-> "y", winner |-> "a", margin |-> "minor"],
            [item_a |-> "y", item_b |-> "z", winner |-> "b", margin |-> "minor"]>>
    /\ DOMAIN invoked.value = {"x", "y", "z"}
    /\ invoked.value["z"][1].fit # <<>>

(***************************************************************************)
(* analysis/bradley_terry.py: BradleyTerryAnalyzer                         *)
(***************************************************************************)
MaxPermuted == 3

\* item ids in the order sorted() gives them
ItemOrder == <<"w", "x", "y", "z">>

\* sorted(items)
Sorted(items) == SelectSeq(ItemOrder, LAMBDA x : x \in items)

\* _build_item_map: _item_list
BuildItemMap(results) == Sorted(Items(results))

\* a pass that stores the weight: wins[key] = weight
SetWin(wins, key, weight) ==
    IF key \in DOMAIN wins.count
    THEN [wins EXCEPT !.count[key] = weight]
    ELSE [keys |-> Append(wins.keys, key), count |-> DictSet(wins.count, key, weight)]

\* one pass of the loop of _compute_win_matrix, in units of 0.5:
\* wins[key] = wins.get(key, 0.0) + weight.  The dict is kept as its keys in
\* insertion order and the count under each key.
AddWin(wins, key, weight) ==
    IF key \in DOMAIN wins.count
    THEN [wins EXCEPT !.count[key] = @ + weight]
    ELSE [keys |-> Append(wins.keys, key), count |-> DictSet(wins.count, key, weight)]

\* _compute_win_matrix with major_win_multiplier = 3
RECURSIVE WinMatrixAfter(_, _)
WinMatrixAfter(wins, results) ==
    IF results = <<>> THEN wins
    ELSE LET result == Head(results)
             weight == IF result.margin = "major" THEN 6 ELSE 2
             next == IF result.winner = "a"
                     THEN AddWin(wins, <<result.item_a, result.item_b>>, weight)
                     ELSE IF result.winner = "b"
                     THEN AddWin(wins, <<result.item_b, result.item_a>>, weight)
                     ELSE AddWin(AddWin(wins, <<result.item_a, result.item_b>>, 1),
                                 <<result.item_b, result.item_a>>, 1)
         IN WinMatrixAfter(next, Tail(results))

ComputeWinMatrix(results) == WinMatrixAfter([keys |-> <<>>, count |-> EmptyDict], results)

\* wins.get((a, b), 0.0)
WinsGet(wins, a, b) == IF <<a, b>> \in DOMAIN wins.count THEN wins.count[<<a, b>>] ELSE 0

\* total_wins and total_losses: the loop over wins.items(), in insertion order
RECURSIVE TotalsAfter(_, _, _, _)
TotalsAfter(totals, wins, k, side) ==
    IF k > Len(wins.keys) THEN totals
    ELSE LET key == wins.keys[k]
         IN TotalsAfter([totals EXCEPT ![key[side]] = @ + wins.count[key]], wins, k + 1, side)

\* the totals taken from the losers: total_wins[loser] += count
WinsOfLosers(items, wins) == TotalsAfter([x \in Range(items) |-> 0], wins, 1, 2)

TotalWins(items, wins) == TotalsAfter([x \in Range(items) |-> 0], wins, 1, 1)

TotalLosses(items, wins) == TotalsAfter([x \in Range(items) |-> 0], wins, 1, 2)

\* what the iteration of _fit_iterative_scaling reads of the results: the
\* sorted items, wins through wins.get, and the totals
FitInput(results) ==
    LET items == BuildItemMap(results)
        wins == ComputeWinMatrix(results)
    IN [items |-> items,
        wins |-> [a \in Range(items), b \in Range(items) |-> WinsGet(wins, a, b)],
        total_wins |-> TotalWins(items, wins),
        total_losses |-> TotalLosses(items, wins)]

(***************************************************************************)
(* Borda and Bradley-Terry on a list of records and on a permutation of it *)
(***************************************************************************)
\* records as _borda_from_pairwise reads them: a winner of "tie" is a tie
\* there, a winner of None is a tie for the Bradley-Terry analyzer
JudgedRecords ==
    {[item_a |-> p[1], item_b |-> p[2], winner |-> o[1], margin |-> o[2]] :
        p \in {<<"x", "y">>, <<"y", "z">>},
        o \in {<<"a", "major">>, <<"a", "minor">>, <<"b", "minor">>,
               <<"tie", "tie">>, <<None, "minor">>}}

\* a list of records and an order to take them in
PermutedInputs ==
    UNION {[records : [1..n -> JudgedRecords], order : Permutations(1..n)] :
              n \in 0..MaxPermuted}

Permuted(records, order) == [k \in 1..Len(records) |-> records[order[k]]]

\* one pass of the loop of _borda_from_pairwise, in units of 0.5
BordaStep(scores, res) ==
    LET present == [x \in DOMAIN scores \cup {res.item_a, res.item_b} |->
                       IF x \in DOMAIN scores THEN scores[x] ELSE 0]
        weight == IF res.margin \in DOMAIN BordaWeights
                  THEN BordaWeights[res.margin] ELSE 2
    IN IF res.winner = "a" THEN [present EXCEPT ![res.item_a] = @ + weight]
       ELSE IF res.winner = "b" THEN [present EXCEPT ![res.item_b] = @ + weight]
       ELSE IF res.winner = "tie"
            THEN [[present EXCEPT ![res.item_a] = @ + BordaWeights["tie"]]
                      EXCEPT ![res.item_b] = @ + BordaWeights["tie"]]
       ELSE present

\* _borda_from_pairwise, record by record
RECURSIVE BordaAfter(_, _)
BordaAfter(scores, pairwise_results) ==
    IF pairwise_results = <<>> THEN scores
    ELSE BordaAfter(BordaStep(scores, Head(pairwise_results)), Tail(pairwise_results))

InitPermuted == InitLibrary(PermutedInputs)

BordaCall ==
    LibraryCall("_borda_from_pairwise",
        [exc |-> None,
         value |-> [original |-> BordaAfter(EmptyDict, invoked.args.records),
                    permuted |-> BordaAfter(EmptyDict,
                                    Permuted(invoked.args.records, invoked.args.order))]])

\* the analyzer is built from PairwiseResult objects only
BradleyTerryCall ==
    /\ \A k \in 1..Len(invoked.args.records) :
          PostInitOk(invoked.args.records[k].winner, invoked.args.records[k].margin)
    /\ LibraryCall("_fit_iterative_scaling",
        [exc |-> None,
         value |-> [original |-> FitInput(invoked.args.records),
                    permuted |-> FitInput(Permuted(invoked.args.records,
                                                   invoked.args.order))]])

NextPermuted == BordaCall \/ BradleyTerryCall

SpecPermuted == InitPermuted /\ [][NextPermuted]_vars

\* C24: for every list of records and every permutation of it, the Borda
\* score map of the permuted list is the one of the original list, and the
\* Bradley-Terry fit of the permuted list reads the same sorted items, the same
\* win counts and the same totals as the fit of the original list, from which
\* alone it computes its score map.
C24_ScoresIgnoreRecordOrder ==
    /\ LibraryReturned("_borda_from_pairwise") =>
          /\ invoked.value.permuted = invoked.value.original
          /\ invoked.value.original = BordaFromPairwise(invoked.args.records)
    /\ LibraryReturned("_fit_iterative_scaling") =>
          invoked.value.permuted = invoked.value.original

\* C24 witness: the same pair won twice with different margins and then lost,
\* taken in reverse order.
C24_Witness ==
    /\ LibraryReturned("_fit_iterative_scaling")
    /\ invoked.args.records =
          <<[item_a |-> "x", item_b |-> "y", winner |-> "a", margin |-> "major"],
            [item_a |-> "x", item_b |-> "y", winner |-> "a", margin |-> "minor"],
            [item_a |-> "x", item_b |-> "y", winner |-> "b", margin |-> "minor"]>>
    /\ invoked.args.order = <<3, 2, 1>>
    /\ invoked.value.permuted.wins[<<"x", "y">>] = 8
    /\ invoked.value.permuted.total_wins = [x |-> 8, y |-> 2]

(***************************************************************************)
(* analysis/bradley_terry.py: fit through _fit_iterative_scaling           *)
(***************************************************************************)
MaxIter == 2

\* The float scores of one dict are kept as their levels.  Level 0 is 0.0, a
\* float on a higher level is greater than one on a lower level, and floats on
\* one level are equal.  Among the new_scores of an iteration level 1 holds the
\* positive floats up to the floor 1e-10 (after max(., 1e-10): the floor).
Levels == 0..4

\* the same order of the scores on the lowest levels that can hold it
Dense(scores) ==
    [item \in DOMAIN scores |->
        Cardinality({scores[other] : other \in {o \in DOMAIN scores : scores[o] < scores[item]}}) + 1]

FloorLevel == 1

\* the level of the initial score 1.0
One == 2

\* results of the analyzer: two pairs that share an item and one apart
FitResults ==
    {[item_a |-> p[1], item_b |-> p[2], winner |-> o[1], margin |-> o[2]] :
        p \in {<<"x", "y">>, <<"y", "z">>, <<"w", "z">>},
        o \in {<<"a", "major">>, <<"a", "minor">>, <<"b", "minor">>, <<None, "minor">>}}

\* the lists of at most two results
FitLists ==
    {<<>>} \cup {<<r>> : r \in FitResults} \cup {<<r1, r2>> : r1 \in FitResults, r2 \in FitResults}

\* denom > 0: the item has a comparison with another item
HasOpponent(input, item) ==
    \E other \in Range(input.items) :
        other # item /\ input.wins[item, other] + input.wins[other, item] > 0

\* the levels new_scores[item] can take before the floor: total_wins / denom
\* is 0.0 without wins and a positive float otherwise; without a denominator
\* the score is kept
NewScores(input, scores, item) ==
    IF HasOpponent(input, item)
    THEN IF input.total_wins[item] = 0 THEN {0} ELSE Levels \ {0}
    ELSE {scores[item]}

\* max(new_scores[item], 1e-10)
Floored(level) == IF level < FloorLevel THEN FloorLevel ELSE level

\* the scores after the loop over the items of one iteration
Updated(input, scores) ==
    LET choices == [item \in Range(input.items) |-> NewScores(input, scores, item)]
        open == {item \in Range(input.items) : Cardinality(choices[item]) > 1}
    IN {Dense([item \in Range(input.items) |->
                 Floored(IF item \in open THEN raw[item]
                         ELSE CHOOSE level \in choices[item] : TRUE)]) :
           raw \in {r \in [open -> Levels] : \A item \in open : r[item] \in choices[item]}}

\* v -> max(v / geo_mean, 1e-10) with a positive geo_mean: never below the
\* floor, the floor for 0.0, and never reversing the order of two floats; two
\* neighbouring levels stay apart or fall together
Rescalings ==
    {m \in [Levels -> Levels \ {0}] :
        /\ m[0] = FloorLevel
        /\ m[1] = FloorLevel
        /\ \A a \in 1..3 : m[a + 1] \in {m[a], m[a] + 1}}

\* the scores after the normalisation of one iteration
Normalized(scores) ==
    {Dense([item \in DOMAIN scores |-> m[scores[item]]]) : m \in Rescalings}

\* fit() where choix cannot be imported: _build_item_map, then
\* _fit_iterative_scaling up to its loop
FitStart ==
    /\ invoked.fn = None
    /\ LET input == FitInput(invoked.args)
           n == Len(input.items)
       IN invoked' =
            [invoked EXCEPT
                !.fn = "fit",
                !.value = [input |-> input,
                           scores |-> [item \in Range(input.items) |-> One],
                           iteration |-> 0,
                           returned |-> n <= 1]]
    /\ UNCHANGED <<chairman, events, registry, provider, config, task,
                   pc, tasks, output, review, calls, raised>>

\* one iteration of the loop; stop is max_change < tol
FitIterate ==
    /\ invoked.fn = "fit"
    /\ ~invoked.value.returned
    /\ invoked.value.iteration < MaxIter
    /\ \E scores \in UNION {Normalized(new_scores) :
                new_scores \in Updated(invoked.value.input, invoked.value.scores)} :
       \E stop \in BOOLEAN :
          invoked' =
            [invoked EXCEPT
                !.value.scores = scores,
                !.value.iteration = @ + 1,
                !.value.returned = stop \/ invoked.value.iteration + 1 = MaxIter]
    /\ UNCHANGED <<chairman, events, registry, provider, config, task,
                   pc, tasks, output, review, calls, raised>>

InitFit == InitLibrary(FitLists)

NextFit == FitStart \/ FitIterate

SpecFit == InitFit /\ [][NextFit]_vars

FitReturned == invoked.fn = "fit" /\ invoked.value.returned

\* record k is a win of i over j
WinOf(results, k, i, j) ==
    \/ results[k].winner = "a" /\ results[k].item_a = i /\ results[k].item_b = j
    \/ results[k].winner = "b" /\ results[k].item_b = i /\ results[k].item_a = j

\* the records contain a win of i over j and no other record involves i or j
IsolatedWin(results, i, j) ==
    \E k \in 1..Len(results) :
        /\ WinOf(results, k, i, j)
        /\ \A other \in 1..Len(results) :
              other # k => {results[other].item_a, results[other].item_b} \cap {i, j} = {}

====
